---- MODULE Spec2Model ----
(***************************************************************************)
(* Twilio SMS Gateway (Odoo add-on): the dispatch jobs (twilio.sms,        *)
(* twilio.sms.group, twilio.whatsapp), the provider configuration          *)
(* (twilio.config), the central ledger (sms.log) and the two cron sweeps.  *)
(*                                                                         *)
(* Text fields are sequences of one-character strings, so that strip(),    *)
(* split(',') and startswith() are computed as Python computes them.       *)
(* Every handler is one action; the HTTP calls it makes are recorded in    *)
(* op.calls, the record of the most recent handler invocation.             *)
(***************************************************************************)
EXTENDS Integers, Sequences, FiniteSets, TLC

VARIABLES
    now,        \* fields.Datetime.now(): the clock, in whole time units
    configs,    \* twilio.config table, in id order
    sms,        \* twilio.sms table: id -> record
    groups,     \* twilio.sms.group table: id -> record
    whatsapp,   \* twilio.whatsapp table: id -> record
    ledger,     \* sms.log table, in creation order
    op,         \* the most recent handler invocation and its HTTP calls
    order_configs,    \* sale.order.sms.config table, in id order
    picking_configs,  \* stock.picking.sms.config table, in id order
    orders,     \* sale.order table: id -> record
    pickings,   \* stock.picking table: id -> record
    inflight,   \* the sweeps that have searched and not yet run their loop
    res_partner, \* res.partner table: id -> contact
    wizards     \* sms.import.wizard table: id -> uploaded file and target

\* the tables of the order and delivery notifications
docs == <<order_configs, picking_configs, orders, pickings>>

vars ==
    <<now, configs, sms, groups, whatsapp, ledger, op, docs, inflight,
      res_partner, wizards>>

(***************************************************************************)
(* Bounds of the model.                                                    *)
(***************************************************************************)
MaxTime == 2    \* the clock runs 0..MaxTime
MaxLog == 2     \* sms.log holds at most MaxLog rows before a purge
MaxBatch == 1   \* a group's sms_log holds at most MaxBatch batches before it is cleared

NoTime == -1    \* schedule_datetime = False

(***************************************************************************)
(* Python string helpers on sequences of characters.                       *)
(***************************************************************************)
\* str.lstrip(): the leading blanks dropped
lstrip(s) ==
    LET solid == {i \in 1..Len(s) : s[i] # " "} IN
    IF solid = {} THEN <<>>
    ELSE SubSeq(s, CHOOSE i \in solid : \A j \in solid : i <= j, Len(s))

\* str.rstrip(): the trailing blanks dropped
rstrip(s) ==
    LET solid == {i \in 1..Len(s) : s[i] # " "} IN
    IF solid = {} THEN <<>>
    ELSE SubSeq(s, 1, CHOOSE i \in solid : \A j \in solid : j <= i)

\* str.strip()
strip(s) == rstrip(lstrip(s))

\* str.split(','): always at least one piece, empty pieces kept
RECURSIVE split(_, _)
split(s, sep) ==
    IF \A i \in 1..Len(s) : s[i] # sep
    THEN <<s>>
    ELSE LET k == CHOOSE i \in 1..Len(s) :
                      s[i] = sep /\ \A j \in 1..(i - 1) : s[j] # sep
         IN  <<SubSeq(s, 1, k - 1)>> \o split(SubSeq(s, k + 1, Len(s)), sep)

\* sep.join(parts)
RECURSIVE join(_, _)
join(parts, sep) ==
    IF parts = <<>> THEN <<>>
    ELSE IF Len(parts) = 1 THEN parts[1]
    ELSE parts[1] \o sep \o join(Tail(parts), sep)

\* [x.strip() for x in xs if x.strip()]
stripped_nonempty(xs) ==
    SelectSeq([i \in 1..Len(xs) |-> strip(xs[i])], LAMBDA x : x # <<>>)

startswith(s, p) == Len(s) >= Len(p) /\ SubSeq(s, 1, Len(p)) = p

(***************************************************************************)
(* Record sets.                                                            *)
(***************************************************************************)
Range(s) == {s[i] : i \in DOMAIN s}

Max(S) == CHOOSE x \in S : \A y \in S : y <= x
Min(S) == CHOOSE x \in S : \A y \in S : x <= y

\* a record set in "create_date desc" order (ids grow with creation)
RECURSIVE desc(_)
desc(S) == IF S = {} THEN <<>> ELSE <<Max(S)>> \o desc(S \ {Max(S)})

\* a record set in id order
RECURSIVE asc(_)
asc(S) == IF S = {} THEN <<>> ELSE <<Min(S)>> \o asc(S \ {Min(S)})

(***************************************************************************)
(* The transport provider: what one requests.post can do.                  *)
(***************************************************************************)
Outcomes == {"accepted", "rejected", "exception"}

\* response.status_code in (200, 201)
status_ok(outcome) == outcome = "accepted"

(***************************************************************************)
(* twilio.config: the provider configuration.                              *)
(***************************************************************************)
Blank == <<>>           \* an empty Char field (False)
falsy(x) == x = Blank   \* Python's "not x" on a text field

\* the WhatsApp sender of the provider configuration: an optional text field,
\* empty until the operator fills it in
whatsapp_sender_default == [whatsapp_number |-> Blank]

\* self.create({'name': 'Twilio Settings'}): every other field at its default
new_config ==
    [ connection_status |-> "unknown",
      account_sid |-> Blank, auth_token |-> Blank, twilio_number |-> Blank ]
    @@ whatsapp_sender_default

\* self.env['twilio.config'].search([], limit=1): the record set, as a sequence
search_config(cfgs) == IF cfgs = <<>> THEN <<>> ELSE <<cfgs[1]>>

\* what an operator types into the settings form before saving it
ConfigForms ==
    { [account_sid |-> <<"A", "C">>, auth_token |-> <<"t">>,
       twilio_number |-> <<"+", "9">>],
      [account_sid |-> Blank, auth_token |-> <<"t">>,
       twilio_number |-> <<"+", "9">>] }

\* what an operator types into the WhatsApp sender field
WhatsappNumbers == {Blank, <<"+", "8">>}

(***************************************************************************)
(* twilio.sms: single / multi SMS job.                                     *)
(***************************************************************************)
Terminal == {"sent", "partial", "failed"}

\* the record a form save creates: tracking fields at their defaults
new_sms(form) ==
    [ recipient_type |-> form.recipient_type,
      recipient_single |-> form.recipient_single,
      recipient_multi |-> form.recipient_multi,
      message_body |-> form.message_body,
      schedule_datetime |-> NoTime,
      state |-> "draft", sent_count |-> 0, failed_count |-> 0,
      response_log |-> <<>>, log_success |-> <<>>, log_failure |-> <<>> ]

\* step 1 of _send_to_twilio: the two configuration checks
sms_config_error(cfgs) ==
    LET config == search_config(cfgs) IN
    \/ config = <<>>
    \/ config[1].connection_status # "connected"
    \/ falsy(config[1].account_sid)
    \/ falsy(config[1].auth_token)
    \/ falsy(config[1].twilio_number)

\* a recipient check that looks at the bulk field only
sms_recipient_error_multi_only(rec) ==
    rec.recipient_type # "single" /\ falsy(rec.recipient_multi)

\* step 2 of _send_to_twilio: the recipient list is missing
sms_recipient_error(rec) ==
    IF rec.recipient_type = "single"
    THEN falsy(rec.recipient_single)
    ELSE falsy(rec.recipient_multi)

\* step 2 of _send_to_twilio: numbers_to_send
numbers_to_send(rec) ==
    IF rec.recipient_type = "single"
    THEN <<strip(rec.recipient_single)>>
    ELSE stripped_nonempty(split(rec.recipient_multi, ","))

current_source(rec) ==
    IF rec.recipient_type = "single" THEN "op_single" ELSE "op_multi"

\* final_state with the partial branch lost: any success reads as "sent"
final_state_no_partial(sent_count, failed_count) ==
    IF sent_count > 0 THEN "sent" ELSE "failed"

\* step 7 of _send_to_twilio: the final state
final_state(sent_count, failed_count) ==
    IF sent_count > 0 /\ failed_count = 0 THEN "sent"
    ELSE IF sent_count > 0 /\ failed_count > 0 THEN "partial"
    ELSE "failed"

\* the text logged for one failed number: the provider's message or "Error ..."
failure_msg(outcome) == IF outcome = "rejected" THEN "message" ELSE "Error"

\* the send loop with a break after the first failed call
RECURSIVE sms_loop_break(_, _, _, _, _)
sms_loop_break(id, nums, config, outs, acc) ==
    IF nums = <<>> THEN acc
    ELSE
    LET number == Head(nums)
        outcome == Head(outs)
        call == [job |-> id, From |-> config.twilio_number, To |-> number,
                 outcome |-> outcome]
    IN  IF status_ok(outcome)
        THEN sms_loop_break(id, Tail(nums), config, Tail(outs),
                 [acc EXCEPT
                    !.sent_numbers = @ \o <<number>>,
                    !.sent_log_lines = @ \o <<<<number, "Delivered Successfully">>>>,
                    !.display_log_lines = @ \o <<<<number, "Delivered">>>>,
                    !.calls = @ \o <<call>>])
        ELSE [acc EXCEPT
                !.failed_numbers = @ \o <<number>>,
                !.failed_log_lines = @ \o <<<<number, failure_msg(outcome)>>>>,
                !.display_log_lines = @ \o <<<<number, failure_msg(outcome)>>>>,
                !.calls = @ \o <<call>>]

\* step 4 of _send_to_twilio: the loop over numbers_to_send, the provider
\* answering outs[i] to the i-th call; acc collects the lists of step 3 and the
\* HTTP calls made
RECURSIVE sms_loop(_, _, _, _, _)
sms_loop(id, nums, config, outs, acc) ==
    IF nums = <<>> THEN acc
    ELSE
    LET number == Head(nums)
        outcome == Head(outs)
        call == [job |-> id, From |-> config.twilio_number, To |-> number,
                 outcome |-> outcome]
        next ==
            IF status_ok(outcome)
            THEN [acc EXCEPT
                    !.sent_numbers = @ \o <<number>>,
                    !.sent_log_lines = @ \o <<<<number, "Delivered Successfully">>>>,
                    !.display_log_lines = @ \o <<<<number, "Delivered">>>>,
                    !.calls = @ \o <<call>>]
            ELSE [acc EXCEPT
                    !.failed_numbers = @ \o <<number>>,
                    !.failed_log_lines = @ \o <<<<number, failure_msg(outcome)>>>>,
                    !.display_log_lines = @ \o <<<<number, failure_msg(outcome)>>>>,
                    !.calls = @ \o <<call>>]
    IN  sms_loop(id, Tail(nums), config, Tail(outs), next)

\* step 3 of _send_to_twilio: the tracking lists, empty
sms_tracking ==
    [ sent_numbers |-> <<>>, failed_numbers |-> <<>>, sent_log_lines |-> <<>>,
      failed_log_lines |-> <<>>, display_log_lines |-> <<>>, calls |-> <<>> ]

\* step 5C of _send_to_twilio: the sms.log rows of one pass
sms_rows(rec, t) ==
    (IF t.sent_numbers # <<>>
     THEN << [to_number |-> join(t.sent_numbers, <<",">>), status |-> "sent",
              source_model |-> current_source(rec),
              api_response |-> "Batch Sent Successfully"] >>
     ELSE <<>>)
    \o
    (IF t.failed_numbers # <<>>
     THEN << [to_number |-> join(t.failed_numbers, <<",">>), status |-> "failed",
              source_model |-> current_source(rec),
              api_response |-> t.failed_log_lines] >>
     ELSE <<>>)

\* the counts of the pass are added to the counts the record holds
_send_to_twilio_adding(id, rec, cfgs, outs) ==
    IF sms_config_error(cfgs) \/ sms_recipient_error(rec)
    THEN [raised |-> TRUE, rec |-> rec, rows |-> <<>>, calls |-> <<>>]
    ELSE
    LET config == search_config(cfgs)[1]
        t == sms_loop(id, numbers_to_send(rec), config, outs, sms_tracking)
    IN  [ raised |-> FALSE,
          rec |-> [rec EXCEPT
                     !.log_success = t.sent_log_lines,
                     !.log_failure = t.failed_log_lines,
                     !.response_log = t.display_log_lines,
                     !.sent_count = @ + Len(t.sent_numbers),
                     !.failed_count = @ + Len(t.failed_numbers),
                     !.state = final_state(Len(t.sent_numbers),
                                           Len(t.failed_numbers))],
          rows |-> sms_rows(rec, t),
          calls |-> t.calls ]

\* _send_to_twilio on record rec with the provider answering outs[i] to the
\* i-th call: whether it raised, the record written, the sms.log rows created
\* and the HTTP calls made
_send_to_twilio(id, rec, cfgs, outs) ==
    IF sms_config_error(cfgs) \/ sms_recipient_error(rec)
    THEN [raised |-> TRUE, rec |-> rec, rows |-> <<>>, calls |-> <<>>]
    ELSE
    LET config == search_config(cfgs)[1]
        t == sms_loop(id, numbers_to_send(rec), config, outs, sms_tracking)
    IN  [ raised |-> FALSE,
          rec |-> [rec EXCEPT
                     !.log_success = t.sent_log_lines,
                     !.log_failure = t.failed_log_lines,
                     !.response_log = t.display_log_lines,
                     !.sent_count = Len(t.sent_numbers),
                     !.failed_count = Len(t.failed_numbers),
                     !.state = final_state(Len(t.sent_numbers),
                                           Len(t.failed_numbers))],
          rows |-> sms_rows(rec, t),
          calls |-> t.calls ]

(***************************************************************************)
(* twilio.sms.group: group SMS job over res.partner recipients.            *)
(***************************************************************************)
\* _send_one: clean_mobile, the four replace(ch, "") calls: every " ", "-",
\* "(" and ")" removed
clean_mobile(mobile) ==
    SelectSeq(mobile, LAMBDA c : c \notin {" ", "-", "(", ")"})

\* the country code put in front of every national number
formatted_always_country(clean, country_code) ==
    IF startswith(clean, <<"+">>) THEN clean
    ELSE <<"+">> \o country_code \o clean

\* _send_one: the number handed to the provider, from clean_mobile
formatted(clean, country_code) ==
    IF startswith(clean, <<"+">>) THEN clean
    ELSE IF country_code # Blank /\ startswith(clean, country_code)
    THEN <<"+">> \o clean
    ELSE <<"+">> \o country_code \o clean

\* a _send_one without the mobile check: every recipient is posted to
_send_one_unchecked(id, recipient, config, outcome) ==
    LET to == formatted(clean_mobile(recipient.mobile),
                        recipient.country_code) IN
    [is_success |-> status_ok(outcome),
     status_msg |-> IF status_ok(outcome) THEN "Sent"
                    ELSE IF outcome = "rejected" THEN "Failed" ELSE "Error",
     phone_number |-> to,
     calls |-> << [job |-> id, From |-> config.twilio_number, To |-> to,
                   outcome |-> outcome] >>]

\* _send_one(recipient, config) with the provider answering `outcome`:
\* (is_success, status_msg, phone_number) and the HTTP call made, if any
_send_one(id, recipient, config, outcome) ==
    IF falsy(recipient.mobile)
    THEN [is_success |-> FALSE, status_msg |-> "No Mobile",
          phone_number |-> recipient.name, calls |-> <<>>]
    ELSE LET to == formatted(clean_mobile(recipient.mobile),
                              recipient.country_code) IN
         [is_success |-> status_ok(outcome),
          status_msg |-> IF status_ok(outcome) THEN "Sent"
                         ELSE IF outcome = "rejected" THEN "Failed" ELSE "Error",
          phone_number |-> to,
          calls |-> << [job |-> id, From |-> config.twilio_number, To |-> to,
                        outcome |-> outcome] >>]

new_group(form) ==
    [ name |-> form.name, message_body_group |-> form.message_body_group,
      recipient_ids |-> form.recipient_ids,
      schedule_datetime |-> NoTime, state |-> "draft", sms_log |-> <<>> ]

\* _send_now_execute: the configuration check (credentials are not looked at)
group_config_error(cfgs) ==
    LET config == search_config(cfgs) IN
    config = <<>> \/ config[1].connection_status # "connected"

\* _send_now_execute: the group's final state
group_final_state(success_count, total) ==
    IF success_count = total THEN "sent" ELSE "failed"

\* _send_now_execute: the status of the sms.log row
group_row_status(success_count) ==
    IF success_count > 0 THEN "sent" ELSE "failed"

\* _send_now_execute: the loop over recipient_ids, the provider answering
\* outs[i] for the i-th recipient
RECURSIVE group_loop(_, _, _, _, _, _)
group_loop(id, rids, partners, config, outs, acc) ==
    IF rids = <<>> THEN acc
    ELSE
    LET r == partners[Head(rids)]
        one == _send_one(id, r, config, Head(outs))
    IN  group_loop(id, Tail(rids), partners, config, Tail(outs),
            [ log_summary_list |->
                  acc.log_summary_list
                  \o <<<<one.status_msg, r.name, one.phone_number>>>>,
              sent_numbers_list |->
                  acc.sent_numbers_list
                  \o (IF falsy(one.phone_number) THEN <<>> ELSE <<one.phone_number>>),
              success_count |->
                  acc.success_count + (IF one.is_success THEN 1 ELSE 0),
              calls |-> acc.calls \o one.calls ])

group_tracking ==
    [ log_summary_list |-> <<>>, sent_numbers_list |-> <<>>, success_count |-> 0,
      calls |-> <<>> ]

\* _send_now_execute on group record rec, the provider answering outs[i] for the
\* i-th recipient. A batch of sms_log is kept as its report; the "--- Batch ---"
\* header line above it is text no handler reads.
_send_now_execute(id, rec, partners, cfgs, outs) ==
    IF rec.recipient_ids = <<>> \/ group_config_error(cfgs)
    THEN [raised |-> TRUE, rec |-> rec, rows |-> <<>>, calls |-> <<>>]
    ELSE
    LET config == search_config(cfgs)[1]
        n == Len(rec.recipient_ids)
        t == group_loop(id, rec.recipient_ids, partners, config, outs,
                        group_tracking)
    IN  [ raised |-> FALSE,
          rec |-> [rec EXCEPT
                     !.sms_log = <<t.log_summary_list>> \o rec.sms_log,
                     !.state = group_final_state(t.success_count, n)],
          rows |-> << [to_number |-> join(t.sent_numbers_list, <<",", " ">>),
                       custom_header |-> <<rec.name, t.success_count, n>>,
                       status |-> group_row_status(t.success_count),
                       source_model |-> "twilio.sms.group",
                       api_response |-> t.log_summary_list] >>,
          calls |-> t.calls ]

\* every scheduled group is selected, whatever its time
group_is_due_any_time(rec, t) == rec.state = "scheduled"

\* the sweep's search domain, as for twilio.sms
group_is_due(rec, t) ==
    /\ rec.state = "scheduled"
    /\ rec.schedule_datetime # NoTime
    /\ rec.schedule_datetime <= t

\* the sweep's except branch: group.state = "failed"
group_mark_failed(rec) == [rec EXCEPT !.state = "failed"]

(***************************************************************************)
(* twilio.whatsapp: WhatsApp job.                                          *)
(***************************************************************************)
new_whatsapp(form) ==
    [ recipient_type |-> form.recipient_type,
      recipient_single |-> form.recipient_single,
      recipient_multi |-> form.recipient_multi,
      message_body |-> form.message_body,
      state |-> "draft", response_log |-> <<>> ]

\* action_send_whatsapp: the configuration checks
whatsapp_config_error(cfgs) ==
    LET config == search_config(cfgs) IN
    \/ config = <<>>
    \/ config[1].connection_status # "connected"
    \/ falsy(config[1].whatsapp_number)

whatsapp_recipient_error(rec) ==
    IF rec.recipient_type = "single"
    THEN falsy(rec.recipient_single)
    ELSE falsy(rec.recipient_multi)

\* action_send_whatsapp: numbers_to_send (the single number is not stripped)
whatsapp_numbers(rec) ==
    IF rec.recipient_type = "single"
    THEN <<rec.recipient_single>>
    ELSE stripped_nonempty(split(rec.recipient_multi, ","))

\* the address is handed to the provider as it is
wa_plain(x) == x

\* f"whatsapp:{x}"
wa_prefix(x) == <<"whatsapp:">> \o x

\* action_send_whatsapp: the final state
whatsapp_final_state(success_count, total) ==
    IF success_count = total THEN "sent" ELSE "failed"

\* action_send_whatsapp: the send loop
RECURSIVE whatsapp_loop(_, _, _, _, _)
whatsapp_loop(id, nums, config, outs, acc) ==
    IF nums = <<>> THEN acc
    ELSE
    LET number == Head(nums)
        outcome == Head(outs)
        call == [job |-> id, From |-> wa_prefix(config.whatsapp_number),
                 To |-> wa_prefix(number), outcome |-> outcome]
    IN  whatsapp_loop(id, Tail(nums), config, Tail(outs),
            [ success_count |->
                  acc.success_count + (IF status_ok(outcome) THEN 1 ELSE 0),
              logs |-> acc.logs
                       \o << <<IF status_ok(outcome) THEN "Sent to"
                               ELSE IF outcome = "rejected" THEN "Failed"
                               ELSE "Error",
                               number>> >>,
              calls |-> acc.calls \o <<call>> ])

whatsapp_tracking == [success_count |-> 0, logs |-> <<>>, calls |-> <<>>]

send_whatsapp(id, rec, cfgs, outs) ==
    IF whatsapp_config_error(cfgs) \/ whatsapp_recipient_error(rec)
    THEN [raised |-> TRUE, rec |-> rec, rows |-> <<>>, calls |-> <<>>]
    ELSE
    LET config == search_config(cfgs)[1]
        nums == whatsapp_numbers(rec)
        t == whatsapp_loop(id, nums, config, outs, whatsapp_tracking)
    IN  [ raised |-> FALSE,
          rec |-> [rec EXCEPT
                     !.response_log = t.logs,
                     !.state = whatsapp_final_state(t.success_count, Len(nums))],
          rows |-> <<>>,
          calls |-> t.calls ]

\* the search domain without its state term: every record whose time has come
sms_is_due_any_state(rec, t) ==
    rec.schedule_datetime # NoTime /\ rec.schedule_datetime <= t

\* the search domain with '<' for '<='
sms_is_due_strict(rec, t) ==
    /\ rec.state = "scheduled"
    /\ rec.schedule_datetime # NoTime
    /\ rec.schedule_datetime < t

\* the domain of the sweep's search: state = scheduled, schedule_datetime <= now
\* (a record without a schedule time matches no comparison)
sms_is_due(rec, t) ==
    /\ rec.state = "scheduled"
    /\ rec.schedule_datetime # NoTime
    /\ rec.schedule_datetime <= t

\* an except branch that only logs
sms_keep_state(rec) == rec

\* the sweep's except branch: rec.state = 'failed'
sms_mark_failed(rec) == [rec EXCEPT !.state = "failed"]

\* no constraint on the schedule time
check_schedule_off(t, clock) == FALSE

\* _check_schedule: the constraint run when schedule_datetime is written
check_schedule_fails(t, clock) == t # NoTime /\ t < clock

\* a defer test that also defers a job whose time has come
sms_defers_when_due(rec, clock) ==
    rec.schedule_datetime # NoTime /\ rec.schedule_datetime >= clock

\* action_send_sms defers instead of sending
sms_defers(rec, clock) ==
    rec.schedule_datetime # NoTime /\ rec.schedule_datetime > clock

\* the record of one dispatch handler invocation: the handler, the record
\* it was called on, the records on which the send routine ran (in order),
\* those among them (or the record itself) for which it raised, and the HTTP
\* calls made
Op(name, id, raised, calls, executed) ==
    [name |-> name, id |-> id, raised |-> raised, calls |-> calls,
     executed |-> executed]

NoId == 0

\* no dispatch handler has run since the last other operation
Idle == Op("idle", NoId, {}, <<>>, <<>>)

\* who runs _cron_send_scheduled_sms: the cron worker, and an operator who
\* runs the scheduled action by hand
Sweepers == {"cron", "manual"}

\* no sweep is between its search and its loop
NoSweeps == [w \in {} |-> <<>>]

(***************************************************************************)
(* The databases the model starts from: which job records exist, each as   *)
(* its form was saved, over a fixed res.partner table.                     *)
(***************************************************************************)
SmsForm(type, single, multi, body) ==
    [recipient_type |-> type, recipient_single |-> single,
     recipient_multi |-> multi, message_body |-> body]

GroupForm(name, body, recipient_ids) ==
    [name |-> name, message_body_group |-> body, recipient_ids |-> recipient_ids]

Partner(name, mobile, country_code) ==
    [name |-> name, mobile |-> mobile, country_code |-> country_code]

Hi == <<"h", "i">>

\* res.partner: 1 has an international number, 2 a national number of country
\* 91, 3 no mobile
Partners ==
    << Partner(<<"A">>, <<"+", "1", " ", "5">>, Blank),
       Partner(<<"B">>, <<"(", "9", "1", ")", "7">>, <<"9", "1">>),
       Partner(<<"C">>, Blank, <<"9", "1">>) >>

Database(s, g, w) == [sms |-> s, groups |-> g, whatsapp |-> w]

\* one job each: the databases of Spec
Databases ==
    { Database(<<SmsForm("multi", Blank,
                   <<"+", "1", ",", " ", "5", ",", ",", "+", "2", " ">>, Hi)>>,
               <<>>, <<>>),
      Database(<<SmsForm("single", <<" ", "+", "1">>, Blank, Hi)>>, <<>>, <<>>),
      Database(<<SmsForm("single", <<" ">>, Blank, Hi)>>, <<>>, <<>>),
      Database(<<>>, <<GroupForm(<<"V">>, Hi, <<1, 2>>)>>, <<>>),
      Database(<<>>, <<GroupForm(<<"V">>, Hi, <<1, 3>>)>>, <<>>),
      Database(<<>>, <<>>,
               <<SmsForm("multi", Blank, <<"+", "1", ",", "+", "2">>, Hi)>>) }

InitDatabase(db) ==
    /\ order_configs = <<>> /\ picking_configs = <<>>
    /\ orders = <<>> /\ pickings = <<>>
    /\ inflight = NoSweeps
    /\ res_partner = Partners
    /\ wizards = <<>>
    /\ sms = [id \in 1..Len(db.sms) |-> new_sms(db.sms[id])]
    /\ groups = [id \in 1..Len(db.groups) |-> new_group(db.groups[id])]
    /\ whatsapp = [id \in 1..Len(db.whatsapp) |-> new_whatsapp(db.whatsapp[id])]

Init ==
    /\ now = 0
    /\ configs = <<>>
    /\ \E db \in Databases : InitDatabase(db)
    /\ ledger = <<>>
    /\ op = Idle

(***************************************************************************)
(* The clock.                                                              *)
(***************************************************************************)
Tick ==
    /\ now < MaxTime
    /\ now' = now + 1
    /\ op' = Idle
    /\ UNCHANGED <<configs, sms, groups, whatsapp, ledger, docs, inflight, res_partner, wizards>>

(***************************************************************************)
(* twilio.config handlers.                                                 *)
(***************************************************************************)
action_open_settings ==
    /\ configs' = IF search_config(configs) = <<>>
                  THEN configs \o <<new_config>> ELSE configs
    /\ op' = Idle
    /\ UNCHANGED <<now, sms, groups, whatsapp, ledger, docs, inflight, res_partner, wizards>>

MaxConfigs == 2

\* the ids of the table's records: the ORM numbers the records as they are
\* created, id is the primary key
record_ids(table) == [i \in DOMAIN table |-> i]

\* _sql_constraints single_record_check, unique(id): no two records of the
\* table have the same id
single_record_check(table) ==
    \A i, j \in DOMAIN table : record_ids(table)[i] = record_ids(table)[j] => i = j

\* twilio.config create(), from the form's New button, an import or a call:
\* the record is added if the table with it satisfies the constraint
create_config ==
    /\ Len(configs) < MaxConfigs
    /\ configs' = IF single_record_check(configs \o <<new_config>>)
                  THEN configs \o <<new_config>> ELSE configs
    /\ op' = Idle
    /\ UNCHANGED <<now, sms, groups, whatsapp, ledger, docs, inflight,
                   res_partner, wizards>>

\* the settings form is saved with the credentials typed into it
write_config(form) ==
    /\ configs # <<>>
    /\ configs' = [configs EXCEPT
                     ![1].account_sid = form.account_sid,
                     ![1].auth_token = form.auth_token,
                     ![1].twilio_number = form.twilio_number]
    /\ op' = Idle
    /\ UNCHANGED <<now, sms, groups, whatsapp, ledger, docs, inflight, res_partner, wizards>>

\* the settings form is saved with a WhatsApp sender typed into it
write_whatsapp_number(number) ==
    /\ configs # <<>>
    /\ configs' = [configs EXCEPT ![1].whatsapp_number = number]
    /\ op' = Idle
    /\ UNCHANGED <<now, sms, groups, whatsapp, ledger, docs, inflight, res_partner, wizards>>

\* answer: what the account request does
action_test_connection(answer) ==
    /\ configs # <<>>
    /\ LET self == configs[1]
           refused == \/ falsy(self.account_sid) \/ falsy(self.auth_token)
                      \/ falsy(self.twilio_number)
       IN  configs' =
              IF refused THEN configs
              ELSE [configs EXCEPT ![1].connection_status =
                       IF answer = "accepted" THEN "connected" ELSE "failed"]
    /\ op' = Idle
    /\ UNCHANGED <<now, sms, groups, whatsapp, ledger, docs, inflight, res_partner, wizards>>

action_disconnect ==
    /\ configs # <<>>
    /\ configs' = [configs EXCEPT
                     ![1].account_sid = Blank,
                     ![1].auth_token = Blank,
                     ![1].twilio_number = Blank,
                     ![1].connection_status = "unknown"]
    /\ op' = Idle
    /\ UNCHANGED <<now, sms, groups, whatsapp, ledger, docs, inflight, res_partner, wizards>>

(***************************************************************************)
(* sms.log handlers.                                                       *)
(***************************************************************************)
action_delete_all_logs ==
    /\ ledger' = <<>>
    /\ op' = Idle
    /\ UNCHANGED <<now, configs, sms, groups, whatsapp, docs, inflight, res_partner, wizards>>

(***************************************************************************)
(* twilio.sms handlers.                                                    *)
(***************************************************************************)
\* the form is saved with a new schedule_datetime; _check_schedule guards it
sms_write_schedule(id, t) ==
    /\ id \in DOMAIN sms
    /\ sms' = IF check_schedule_fails(t, now) THEN sms
              ELSE [sms EXCEPT ![id].schedule_datetime = t]
    /\ op' = Idle
    /\ UNCHANGED <<now, configs, groups, whatsapp, ledger, docs, inflight, res_partner, wizards>>

action_send_sms(id) ==
    /\ id \in DOMAIN sms
    /\ LET self == sms[id] IN
       IF \/ falsy(self.message_body)
          \/ self.recipient_type = "multi" /\ falsy(self.recipient_multi)
       THEN /\ op' = Op("action_send_sms", id, {id}, <<>>, <<>>)
            /\ UNCHANGED <<sms, ledger>>
       ELSE IF sms_defers(self, now)
       THEN /\ sms' = [sms EXCEPT ![id].state = "scheduled"]
            /\ op' = Op("action_send_sms", id, {}, <<>>, <<>>)
            /\ UNCHANGED ledger
       ELSE \E outs \in [1..Len(numbers_to_send(self)) -> Outcomes] :
            LET r == _send_to_twilio(id, self, configs, outs) IN
            /\ Len(ledger) + Len(r.rows) <= MaxLog
            /\ sms' = [sms EXCEPT ![id] = r.rec]
            /\ ledger' = ledger \o r.rows
            /\ op' = Op("action_send_sms", id, IF r.raised THEN {id} ELSE {},
                        r.calls, <<id>>)
    /\ UNCHANGED <<now, configs, groups, whatsapp, docs, inflight, res_partner, wizards>>

\* twilio.sms action_clear_log: the three log fields of the job are emptied
sms_clear_log(id) ==
    /\ id \in DOMAIN sms
    /\ sms' = [sms EXCEPT ![id].response_log = Blank,
                          ![id].log_success = Blank,
                          ![id].log_failure = Blank]
    /\ op' = Idle
    /\ UNCHANGED <<now, configs, groups, whatsapp, ledger, docs, inflight,
                   res_partner, wizards>>

\* the records the sweep's search selects
sms_due(table, t) == {id \in DOMAIN table : sms_is_due(table[id], t)}

\* the provider's answers to the calls made for record id, in call order
answers_for(answers, id, n) == [i \in 1..n |-> answers[<<id, i>>]]

\* the sweep's loop without its try/except: the first exception ends the sweep
RECURSIVE sms_sweep_unguarded(_, _, _, _)
sms_sweep_unguarded(ids, cfgs, answers, acc) ==
    IF ids = <<>> THEN acc
    ELSE
    LET id == Head(ids)
        rec == acc.table[id]
        r == _send_to_twilio(id, rec, cfgs,
                 answers_for(answers, id, Len(numbers_to_send(rec))))
    IN  IF r.raised
        THEN [acc EXCEPT !.raised = @ \cup {id}, !.executed = @ \o <<id>>]
        ELSE sms_sweep_unguarded(Tail(ids), cfgs, answers,
                 [ table |-> [acc.table EXCEPT ![id] = r.rec],
                   rows |-> acc.rows \o r.rows,
                   calls |-> acc.calls \o r.calls,
                   raised |-> acc.raised,
                   executed |-> acc.executed \o <<id>> ])

\* the sweep's loop over the selected records, in search order
RECURSIVE sms_sweep(_, _, _, _)
sms_sweep(ids, cfgs, answers, acc) ==
    IF ids = <<>> THEN acc
    ELSE
    LET id == Head(ids)
        rec == acc.table[id]
        r == _send_to_twilio(id, rec, cfgs,
                 answers_for(answers, id, Len(numbers_to_send(rec))))
    IN  sms_sweep(Tail(ids), cfgs, answers,
            [ table |-> [acc.table EXCEPT
                           ![id] = IF r.raised THEN sms_mark_failed(rec) ELSE r.rec],
              rows |-> acc.rows \o r.rows,
              calls |-> acc.calls \o r.calls,
              raised |-> acc.raised \cup (IF r.raised THEN {id} ELSE {}),
              executed |-> acc.executed \o <<id>> ])

_cron_send_scheduled_sms ==
    LET scheduled == desc(sms_due(sms, now))
        slots == {<<id, i>> \in (DOMAIN sms) \X (1..3) :
                     /\ id \in sms_due(sms, now)
                     /\ i <= Len(numbers_to_send(sms[id]))}
    IN  \E answers \in [slots -> Outcomes] :
        LET r == sms_sweep(scheduled, configs, answers,
                           [table |-> sms, rows |-> <<>>, calls |-> <<>>,
                            raised |-> {}, executed |-> <<>>])
        IN  /\ Len(ledger) + Len(r.rows) <= MaxLog
            /\ sms' = r.table
            /\ ledger' = ledger \o r.rows
            /\ op' = Op("_cron_send_scheduled_sms", NoId, r.raised, r.calls,
                        r.executed)
            /\ UNCHANGED <<now, configs, groups, whatsapp, docs, inflight, res_partner, wizards>>

\* _cron_send_scheduled_sms as two steps, for sweeps that overlap other
\* handlers. The search: the sweep's transaction reads the due records.
cron_search(w) ==
    /\ w \notin DOMAIN inflight
    /\ inflight' = (w :> [selected |-> desc(sms_due(sms, now)), table |-> sms])
                       @@ inflight
    /\ op' = Idle
    /\ UNCHANGED <<now, configs, sms, groups, whatsapp, ledger, docs, res_partner, wizards>>

\* the records of table whose ids are in the sequence ids, written over base
written(base, table, ids) ==
    [id \in DOMAIN base |-> IF id \in Range(ids) THEN table[id] ELSE base[id]]

\* The loop of the sweep that searched as inflight[w]: _send_to_twilio on each
\* selected record as the sweep's transaction sees it, with no look at the
\* record's state. When another transaction has written a selected record
\* since the search, the database either refuses this transaction's writes
\* (they are rolled back) or takes them; the HTTP calls are made in both cases.
cron_loop(w) ==
    /\ w \in DOMAIN inflight
    /\ LET txn == inflight[w]
           slots == {<<id, k>> \in (DOMAIN sms) \X (1..3) :
                        /\ id \in Range(txn.selected)
                        /\ k <= Len(numbers_to_send(txn.table[id]))}
           conflict == \E id \in Range(txn.selected) : sms[id] # txn.table[id]
       IN  \E answers \in [slots -> Outcomes], refused \in BOOLEAN :
           LET r == sms_sweep(txn.selected, configs, answers,
                              [table |-> txn.table, rows |-> <<>>,
                               calls |-> <<>>, raised |-> {},
                               executed |-> <<>>])
           IN  /\ refused => conflict
               /\ Len(ledger) + Len(r.rows) <= MaxLog
               /\ sms' = IF refused THEN sms
                         ELSE written(sms, r.table, txn.selected)
               /\ ledger' = IF refused THEN ledger ELSE ledger \o r.rows
               /\ op' = Op("_cron_send_scheduled_sms", NoId, r.raised, r.calls,
                           r.executed)
    /\ inflight' = [v \in DOMAIN inflight \ {w} |-> inflight[v]]
    /\ UNCHANGED <<now, configs, groups, whatsapp, docs, res_partner, wizards>>

(***************************************************************************)
(* twilio.sms.group handlers.                                              *)
(***************************************************************************)
group_write_schedule(id, t) ==
    /\ id \in DOMAIN groups
    /\ groups' = IF check_schedule_fails(t, now) THEN groups
                 ELSE [groups EXCEPT ![id].schedule_datetime = t]
    /\ op' = Idle
    /\ UNCHANGED <<now, configs, sms, whatsapp, ledger, docs, inflight, res_partner, wizards>>

\* action_send_now defers instead of sending
group_defers(rec, clock) ==
    rec.schedule_datetime # NoTime /\ rec.schedule_datetime > clock

action_send_now(id) ==
    /\ id \in DOMAIN groups
    /\ LET self == groups[id] IN
       IF falsy(self.name) \/ falsy(self.message_body_group)
       THEN /\ op' = Op("action_send_now", id, {id}, <<>>, <<>>)
            /\ UNCHANGED <<groups, ledger>>
       ELSE IF group_defers(self, now)
       THEN /\ groups' = [groups EXCEPT ![id].state = "scheduled"]
            /\ op' = Op("action_send_now", id, {}, <<>>, <<>>)
            /\ UNCHANGED ledger
       ELSE \E outs \in [1..Len(self.recipient_ids) -> Outcomes] :
            LET r == _send_now_execute(id, self, res_partner, configs, outs) IN
            /\ Len(ledger) + Len(r.rows) <= MaxLog
            /\ Len(r.rec.sms_log) <= MaxBatch
            /\ groups' = [groups EXCEPT ![id] = r.rec]
            /\ ledger' = ledger \o r.rows
            /\ op' = Op("action_send_now", id, IF r.raised THEN {id} ELSE {},
                        r.calls, <<id>>)
    /\ UNCHANGED <<now, configs, sms, whatsapp, docs, inflight, res_partner, wizards>>

group_clear_log(id) ==
    /\ id \in DOMAIN groups
    /\ groups' = [groups EXCEPT ![id].sms_log = <<>>]
    /\ op' = Idle
    /\ UNCHANGED <<now, configs, sms, whatsapp, ledger, docs, inflight, res_partner, wizards>>

group_due(table, t) == {id \in DOMAIN table : group_is_due(table[id], t)}

\* the sweep's loop over the selected groups, in search order
RECURSIVE group_sweep(_, _, _, _)
group_sweep(ids, cfgs, answers, acc) ==
    IF ids = <<>> THEN acc
    ELSE
    LET id == Head(ids)
        rec == acc.table[id]
        r == _send_now_execute(id, rec, res_partner, cfgs,
                 answers_for(answers, id, Len(rec.recipient_ids)))
    IN  group_sweep(Tail(ids), cfgs, answers,
            [ table |-> [acc.table EXCEPT
                           ![id] = IF r.raised THEN group_mark_failed(rec) ELSE r.rec],
              rows |-> acc.rows \o r.rows,
              calls |-> acc.calls \o r.calls,
              raised |-> acc.raised \cup (IF r.raised THEN {id} ELSE {}),
              executed |-> acc.executed \o <<id>> ])

_cron_send_group_sms ==
    LET due == asc(group_due(groups, now))
        slots == {<<id, i>> \in (DOMAIN groups) \X (1..3) :
                     /\ id \in group_due(groups, now)
                     /\ i <= Len(groups[id].recipient_ids)}
    IN  \E answers \in [slots -> Outcomes] :
        LET r == group_sweep(due, configs, answers,
                             [table |-> groups, rows |-> <<>>, calls |-> <<>>,
                              raised |-> {}, executed |-> <<>>])
        IN  /\ Len(ledger) + Len(r.rows) <= MaxLog
            /\ \A id \in DOMAIN groups : Len(r.table[id].sms_log) <= MaxBatch
            /\ groups' = r.table
            /\ ledger' = ledger \o r.rows
            /\ op' = Op("_cron_send_group_sms", NoId, r.raised, r.calls,
                        r.executed)
            /\ UNCHANGED <<now, configs, sms, whatsapp, docs, inflight, res_partner, wizards>>

(***************************************************************************)
(* twilio.whatsapp handler.                                                *)
(***************************************************************************)
\* the handler marks the connection failed when a request cannot be made
action_send_whatsapp_marking(id) ==
    /\ id \in DOMAIN whatsapp
    /\ \E outs \in [1..Len(whatsapp_numbers(whatsapp[id])) -> Outcomes] :
       LET r == send_whatsapp(id, whatsapp[id], configs, outs) IN
       /\ whatsapp' = [whatsapp EXCEPT ![id] = r.rec]
       /\ op' = Op("action_send_whatsapp", id, IF r.raised THEN {id} ELSE {},
                   r.calls, <<id>>)
       /\ configs' = IF \E i \in DOMAIN r.calls : r.calls[i].outcome = "exception"
                     THEN [configs EXCEPT ![1].connection_status = "failed"]
                     ELSE configs
    /\ UNCHANGED <<now, sms, groups, ledger, docs, inflight, res_partner, wizards>>

\* action_send_whatsapp on job id, the provider answering outs
action_send_whatsapp(id) ==
    /\ id \in DOMAIN whatsapp
    /\ \E outs \in [1..Len(whatsapp_numbers(whatsapp[id])) -> Outcomes] :
       LET r == send_whatsapp(id, whatsapp[id], configs, outs) IN
       /\ whatsapp' = [whatsapp EXCEPT ![id] = r.rec]
       /\ op' = Op("action_send_whatsapp", id, IF r.raised THEN {id} ELSE {},
                   r.calls, <<id>>)
    /\ UNCHANGED <<now, configs, sms, groups, ledger, docs, inflight, res_partner, wizards>>

Times == {NoTime} \cup (0..MaxTime)

(***************************************************************************)
(* Spec: the direct dispatch handlers under a configuration that the       *)
(* operator creates, edits, tests and disconnects.                         *)
(***************************************************************************)
Next ==
    \/ action_open_settings
    \/ create_config
    \/ \E form \in ConfigForms : write_config(form)
    \/ \E number \in WhatsappNumbers : write_whatsapp_number(number)
    \/ \E answer \in Outcomes : action_test_connection(answer)
    \/ action_disconnect
    \/ action_delete_all_logs
    \/ \E id \in DOMAIN sms : action_send_sms(id)
    \/ \E id \in DOMAIN groups : action_send_now(id)
    \/ \E id \in DOMAIN groups : group_clear_log(id)
    \/ \E id \in DOMAIN whatsapp : action_send_whatsapp(id)

Spec == Init /\ [][Next]_vars

(***************************************************************************)
(* SpecSweep: scheduling and the two cron sweeps, under each configuration *)
(* the operator can have left behind.                                      *)
(***************************************************************************)
Connected(form) ==
    [ connection_status |-> "connected",
      account_sid |-> form.account_sid, auth_token |-> form.auth_token,
      twilio_number |-> form.twilio_number ]
    @@ whatsapp_sender_default

\* no record; a record never tested; a connected record, complete or with a
\* credential blanked afterwards
SweepConfigs ==
    { <<>>, <<new_config>> } \cup { <<Connected(form)>> : form \in ConfigForms }

SweepDatabases ==
    { Database(<<SmsForm("single", <<" ", "+", "1">>, Blank, Hi),
                 SmsForm("single", Blank, Blank, Hi)>>, <<>>, <<>>),
      Database(<<SmsForm("multi", Blank, <<"+", "1", ",", "+", "2">>, Hi)>>,
               <<>>, <<>>),
      Database(<<>>, <<GroupForm(<<"V">>, Hi, <<1, 3>>),
                       GroupForm(<<"W">>, Hi, <<>>)>>, <<>>),
      Database(<<>>, <<GroupForm(<<"V">>, Hi, <<1, 2>>)>>, <<>>) }

InitSweep ==
    /\ now = 0
    /\ configs \in SweepConfigs
    /\ \E db \in SweepDatabases : InitDatabase(db)
    /\ ledger = <<>>
    /\ op = Idle

NextSweep ==
    \/ Tick
    \/ \E id \in DOMAIN sms, t \in Times : sms_write_schedule(id, t)
    \/ \E id \in DOMAIN sms : action_send_sms(id)
    \/ _cron_send_scheduled_sms
    \/ \E id \in DOMAIN groups, t \in Times : group_write_schedule(id, t)
    \/ \E id \in DOMAIN groups : action_send_now(id)
    \/ _cron_send_group_sms

SpecSweep == InitSweep /\ [][NextSweep]_vars

(***************************************************************************)
(* SpecLive: the clock and the two sweeps alone, each recurring fairly (the *)
(* crons are run by the scheduler at every interval), over jobs an operator *)
(* has left as drafts or scheduled.                                         *)
(***************************************************************************)
\* record rec as the operator left it: submitted for a later time or not
Left(rec, state, t) == [rec EXCEPT !.state = state, !.schedule_datetime = t]

InitLive ==
    /\ now = 0
    /\ configs \in SweepConfigs
    /\ \E db \in SweepDatabases :
          /\ \E st \in [1..Len(db.sms) -> {"draft", "scheduled"}],
                 t \in [1..Len(db.sms) -> Times] :
                sms = [id \in 1..Len(db.sms) |->
                          Left(new_sms(db.sms[id]), st[id], t[id])]
          /\ \E st \in [1..Len(db.groups) -> {"draft", "scheduled"}],
                 t \in [1..Len(db.groups) -> Times] :
                groups = [id \in 1..Len(db.groups) |->
                             Left(new_group(db.groups[id]), st[id], t[id])]
          /\ whatsapp = <<>>
    /\ order_configs = <<>> /\ picking_configs = <<>>
    /\ orders = <<>> /\ pickings = <<>>
    /\ inflight = NoSweeps
    /\ res_partner = Partners
    /\ wizards = <<>>
    /\ ledger = <<>>
    /\ op = Idle

NextLive ==
    \/ Tick
    \/ _cron_send_scheduled_sms
    \/ _cron_send_group_sms

\* the scheduler runs each cron again and again, and time passes
SpecLive ==
    /\ InitLive
    /\ [][NextLive]_vars
    /\ WF_vars(Tick)
    /\ []<>(op.name = "_cron_send_scheduled_sms")
    /\ []<>(op.name = "_cron_send_group_sms")

(***************************************************************************)
(* SpecRace: twilio.sms jobs with sweeps that run at the same time as the   *)
(* operator's handlers and as each other: a sweep searches, other handlers  *)
(* run, the sweep runs its loop.                                            *)
(***************************************************************************)
RaceDatabases ==
    { Database(<<SmsForm("single", <<" ", "+", "1">>, Blank, Hi)>>, <<>>, <<>>),
      Database(<<SmsForm("multi", Blank, <<"+", "1", ",", "+", "2">>, Hi)>>,
               <<>>, <<>>) }

\* the jobs as the operator left them: drafts, or submitted for a later time
InitRace ==
    /\ now = 0
    /\ configs \in SweepConfigs
    /\ \E db \in RaceDatabases :
          \E st \in [1..Len(db.sms) -> {"draft", "scheduled"}],
             t \in [1..Len(db.sms) -> Times] :
             sms = [id \in 1..Len(db.sms) |->
                       Left(new_sms(db.sms[id]), st[id], t[id])]
    /\ groups = <<>> /\ whatsapp = <<>>
    /\ order_configs = <<>> /\ picking_configs = <<>>
    /\ orders = <<>> /\ pickings = <<>>
    /\ inflight = NoSweeps
    /\ res_partner = Partners
    /\ wizards = <<>>
    /\ ledger = <<>>
    /\ op = Idle

NextRace ==
    \/ Tick
    \/ \E id \in DOMAIN sms : action_send_sms(id)
    \/ \E w \in Sweepers : cron_search(w)
    \/ \E w \in Sweepers : cron_loop(w)

SpecRace == InitRace /\ [][NextRace]_vars

(***************************************************************************)
(* Message templates of the order and delivery notifications, and          *)
(* str.format with keyword arguments on them. A template is the sequence   *)
(* of its parts:                                                           *)
(* literal text, a named replacement field {name}, or an automatically or  *)
(* explicitly numbered one ({} / {0}).                                     *)
(***************************************************************************)
Text(s) == [text |-> s]
Field(name) == [field |-> name]
Index(k) == [index |-> k]

\* the replacement fields of a template that data (and no positional
\* argument) cannot resolve, by position
unresolved(template, data) ==
    {i \in DOMAIN template :
        \/ "index" \in DOMAIN template[i]
        \/ "field" \in DOMAIN template[i] /\ template[i].field \notin DOMAIN data}

\* one part of the formatted text
formatted_part(part, data) ==
    IF "text" \in DOMAIN part THEN part.text ELSE data[part.field]

\* a formatter that leaves a blank where a field cannot be resolved
format_lenient(template, data) ==
    [error |-> "none",
     text |-> [i \in DOMAIN template |->
                  IF i \in unresolved(template, data) THEN ""
                  ELSE formatted_part(template[i], data)]]

\* template.format with the keywords data: the formatted text, or the exception raised at
\* the first replacement field that cannot be resolved: KeyError for a name
\* that is not a key of data, IndexError for a numbered field
format(template, data) ==
    IF unresolved(template, data) = {}
    THEN [error |-> "none",
          text |-> [i \in DOMAIN template |-> formatted_part(template[i], data)]]
    ELSE LET part == template[Min(unresolved(template, data))]
         IN  IF "index" \in DOMAIN part
             THEN [error |-> "IndexError", index |-> part.index]
             ELSE [error |-> "KeyError", key |-> part.field]

\* the message templates an operator has saved: the two defaults, one with
\* another placeholder of the help text, one with a misspelt placeholder, one
\* with a placeholder of the other notification, one with empty braces
OrderDefault ==
    << Text("Hello "), Field("partner_name"), Text(", your order "),
       Field("order_name"), Text(" has been confirmed. Total: "),
       Field("currency"), Field("amount_total"), Text(". Thank you!") >>

DeliveryDefault ==
    << Text("Hello "), Field("partner_name"), Text(", your delivery "),
       Field("picking_name"), Text(" has been shipped via "), Field("carrier"),
       Text(". Tracking: "), Field("tracking_ref"), Text(". Thank you!") >>

Templates ==
    { OrderDefault, DeliveryDefault,
      << Text("Hi "), Field("company_name") >>,
      << Text("Hi "), Field("partner"), Field("order_name") >>,
      << Text("Hi "), Index(0) >> }

(***************************************************************************)
(* sale.order.sms.config and sale.order: the order confirmation SMS.       *)
(***************************************************************************)
\* a sale.order.sms.config / stock.picking.sms.config record as created
new_notification_config(is_active, template) ==
    [ is_active |-> is_active, message_template |-> template,
      preview_message |-> <<>>, total_sent |-> 0, total_failed |-> 0 ]

\* _compute_preview_message: sample_data
order_sample_data ==
    [ partner_name |-> "John Doe", order_name |-> "SO001",
      amount_total |-> "1,250.00", date_order |-> "2025-01-15",
      user_name |-> "Sales Manager", company_name |-> "Your Company",
      order_state |-> "Confirmed", product_names |-> "Product A, Product B",
      currency |-> "$" ]

\* _compute_preview_message on one record: the value of preview_message, or
\* the exception that leaves the method
order_compute_preview_message(rec) ==
    IF rec.message_template = <<>>
    THEN [raised |-> FALSE, preview_message |-> <<>>]
    ELSE LET r == format(rec.message_template, order_sample_data) IN
         IF r.error = "none"
         THEN [raised |-> FALSE, preview_message |-> r.text]
         ELSE IF r.error = "KeyError"
         THEN [raised |-> FALSE,
               preview_message |->
                   <<"Error in template: Invalid placeholder ", r.key>>]
         ELSE [raised |-> TRUE, preview_message |-> rec.preview_message]

\* the positions of the active records of a configuration table
active(table) == {i \in DOMAIN table : table[i].is_active}

\* sale.order.sms.config.get_active_config: the first active record
order_get_active_config(table) ==
    IF active(table) = {} THEN <<>> ELSE <<Min(active(table))>>

\* the labels of the selection field sale.order.state
order_state_label(state) ==
    IF state = "draft" THEN "Quotation"
    ELSE IF state = "sale" THEN "Sales Order"
    ELSE ""

\* x or default
or_default(x, default) == IF falsy(x) THEN default ELSE x

\* _prepare_sms_data: the first three product names and how many follow
order_product_names(order) ==
    LET product_names_list == SelectSeq(order.product_names, LAMBDA n : ~falsy(n))
    IN  IF product_names_list = <<>> THEN <<"N/A">>
        ELSE IF Len(product_names_list) > 3
        THEN <<SubSeq(product_names_list, 1, 3), " and ",
               Len(product_names_list) - 3, " more">>
        ELSE <<product_names_list>>

\* _prepare_sms_data: data
order_data(order) ==
    [ partner_name |-> or_default(order.partner_name, <<"Customer">>),
      order_name |-> or_default(order.name, <<>>),
      amount_total |-> <<order.amount_total, ",.2f">>,
      date_order |-> IF order.date_order = NoTime THEN <<>>
                     ELSE <<order.date_order, "%Y-%m-%d">>,
      user_name |-> or_default(order.user_name, <<>>),
      company_name |-> or_default(order.company_name, <<>>),
      order_state |-> order_state_label(order.state),
      product_names |-> order_product_names(order),
      currency |-> or_default(order.currency, <<>>) ]

\* _prepare_sms_data: the message, or the exception raised: UserError naming
\* the placeholder for a KeyError, any other exception of format as it is
order_prepare_sms_data(order, template) ==
    LET r == format(template, order_data(order)) IN
    IF r.error = "none" THEN [raised |-> "none", message |-> r.text]
    ELSE IF r.error = "KeyError"
    THEN [raised |-> "UserError", placeholder |-> r.key]
    ELSE [raised |-> r.error, placeholder |-> r.index]

\* the provider's answer to one call: the outcome, and whether the body of
\* the HTTP response is JSON
Answers ==
    {[outcome |-> o, json |-> j] : o \in {"accepted", "rejected"}, j \in BOOLEAN}
       \cup {[outcome |-> "exception", json |-> FALSE]}

\* what a send routine returns when it leaves before the HTTP call
skipped(doc, table) ==
    [returned |-> FALSE, doc |-> doc, table |-> table, rows |-> <<>>,
     calls |-> <<>>]

\* self.partner_id.mobile or self.partner_id.phone, stripped
recipient_number(doc) == strip(or_default(doc.mobile, doc.phone))

\* one sms.log row of an order or a picking
doc_row(model, id, to, body, status, response) ==
    [to_number |-> to, message_body |-> body, status |-> status,
     source_model |-> model, doc_id |-> id, api_response |-> response]

\* _send_order_confirmation_sms on order self with the provider answering
\* answer: what it returns, the order and the sale.order.sms.config table as
\* written, the sms.log rows created and the HTTP calls made
_send_order_confirmation_sms(id, self, table, cfgs, answer) ==
    LET sms_config == order_get_active_config(table)
        twilio_config == search_config(cfgs)
    IN
    IF \/ sms_config = <<>>
       \/ self.sms_sent
       \/ falsy(self.mobile) /\ falsy(self.phone)
       \/ sms_config_error(cfgs)
    THEN skipped(self, table)
    ELSE
    LET i == sms_config[1]
        rendered == order_prepare_sms_data(self, table[i].message_template)
    IN
    IF rendered.raised # "none" THEN skipped(self, table)
    ELSE
    LET to == recipient_number(self)
        call == [job |-> id, From |-> twilio_config[1].twilio_number, To |-> to,
                 Body |-> rendered.message, outcome |-> answer.outcome]
    IN
    IF status_ok(answer.outcome) /\ answer.json
    THEN [ returned |-> TRUE,
           doc |-> [self EXCEPT !.sms_sent = TRUE],
           table |-> [table EXCEPT ![i].total_sent = @ + 1],
           rows |-> <<doc_row("sale.order", id, to, rendered.message, "sent",
                              "sid")>>,
           calls |-> <<call>> ]
    ELSE [ returned |-> FALSE,
           doc |-> self,
           table |-> [table EXCEPT ![i].total_failed = @ + 1],
           rows |-> <<doc_row("sale.order", id, to, rendered.message, "failed",
                              IF answer.outcome = "rejected" THEN "message"
                              ELSE "Error")>>,
           calls |-> <<call>> ]

\* a confirmation that forgets an earlier SMS
confirmed_afresh(order) == [order EXCEPT !.state = "sale", !.sms_sent = FALSE]

\* the order is confirmed by the framework's action_confirm
confirmed(order) == [order EXCEPT !.state = "sale"]

action_confirm(id) ==
    /\ id \in DOMAIN orders
    /\ \E answer \in Answers :
       LET r == _send_order_confirmation_sms(id, confirmed(orders[id]),
                                             order_configs, configs, answer)
       IN  /\ Len(ledger) + Len(r.rows) <= MaxLog
           /\ orders' = [orders EXCEPT ![id] = r.doc]
           /\ order_configs' = r.table
           /\ ledger' = ledger \o r.rows
           /\ op' = Op("action_confirm", id, {}, r.calls, <<id>>)
    /\ UNCHANGED <<now, configs, sms, groups, whatsapp, picking_configs,
                   pickings, inflight, res_partner, wizards>>

\* a manual send that leaves sms_sent as it finds it
not_reset(order) == order

\* action_send_sms_manually resets sms_sent before it sends
reset(order) == [order EXCEPT !.sms_sent = FALSE]

action_send_sms_manually(id) ==
    /\ id \in DOMAIN orders
    /\ IF orders[id].state \notin {"sale", "done"}
       THEN /\ op' = Op("action_send_sms_manually", id, {id}, <<>>, <<>>)
            /\ UNCHANGED <<orders, order_configs, ledger>>
       ELSE \E answer \in Answers :
            LET r == _send_order_confirmation_sms(id, reset(orders[id]),
                                                  order_configs, configs, answer)
            IN  /\ Len(ledger) + Len(r.rows) <= MaxLog
                /\ orders' = [orders EXCEPT ![id] = r.doc]
                /\ order_configs' = r.table
                /\ ledger' = ledger \o r.rows
                /\ op' = Op("action_send_sms_manually", id, {}, r.calls, <<id>>)
    /\ UNCHANGED <<now, configs, sms, groups, whatsapp, picking_configs,
                   pickings, inflight, res_partner, wizards>>

\* the framework's action_cancel on the order
order_cancel(id) ==
    /\ id \in DOMAIN orders
    /\ orders' = [orders EXCEPT ![id].state = "cancel"]
    /\ op' = Idle
    /\ UNCHANGED <<now, configs, sms, groups, whatsapp, ledger, order_configs,
                   picking_configs, pickings, inflight, res_partner, wizards>>

\* the rows of sms.log that do not refer to the sale.order record id
not_of_order(rows, id) ==
    SelectSeq(rows, LAMBDA row : ~ /\ "doc_id" \in DOMAIN row
                                   /\ row.source_model = "sale.order"
                                   /\ row.doc_id = id)

\* the order is deleted (the framework lets a draft or cancelled order go):
\* sms.log.sale_order_id is ondelete='cascade', the database deletes the
\* order's rows with it
order_unlink(id) ==
    /\ id \in DOMAIN orders
    /\ orders[id].state \in {"draft", "cancel"}
    /\ orders' = [i \in DOMAIN orders \ {id} |-> orders[i]]
    /\ ledger' = not_of_order(ledger, id)
    /\ op' = Idle
    /\ UNCHANGED <<now, configs, sms, groups, whatsapp, order_configs,
                   picking_configs, pickings, inflight, res_partner, wizards>>

\* the form of sale.order.sms.config record i is opened: preview_message is
\* computed
order_preview(i) ==
    /\ i \in DOMAIN order_configs
    /\ LET r == order_compute_preview_message(order_configs[i]) IN
       /\ order_configs' =
             [order_configs EXCEPT ![i].preview_message = r.preview_message]
       /\ op' = Op("order_preview", i, IF r.raised THEN {i} ELSE {}, <<>>, <<>>)
    /\ UNCHANGED <<now, configs, sms, groups, whatsapp, ledger, picking_configs,
                   orders, pickings, inflight, res_partner, wizards>>

(***************************************************************************)
(* stock.picking.sms.config and stock.picking: the delivery SMS.           *)
(***************************************************************************)
\* _compute_preview_message: sample_data
picking_sample_data ==
    [ partner_name |-> "Jane Doe", picking_name |-> "WH/OUT/0001",
      origin |-> "SO001", carrier |-> "FedEx", tracking_ref |-> "1234567890",
      company_name |-> "My Company", scheduled_date |-> "2025-01-20",
      state |-> "Done" ]

picking_compute_preview_message(rec) ==
    IF rec.message_template = <<>>
    THEN [raised |-> FALSE, preview_message |-> <<>>]
    ELSE LET r == format(rec.message_template, picking_sample_data) IN
         IF r.error = "none"
         THEN [raised |-> FALSE, preview_message |-> r.text]
         ELSE IF r.error = "KeyError"
         THEN [raised |-> FALSE,
               preview_message |->
                   <<"Error in template: Invalid placeholder ", r.key>>]
         ELSE [raised |-> TRUE, preview_message |-> rec.preview_message]

\* a search without order='id desc': the first active record
picking_get_active_config_first(table) ==
    IF active(table) = {} THEN <<>> ELSE <<Min(active(table))>>

\* stock.picking.sms.config.get_active_config: the newest active record
picking_get_active_config(table) ==
    IF active(table) = {} THEN <<>> ELSE <<Max(active(table))>>

\* _prepare_sms_data: data
picking_data(picking) ==
    [ partner_name |-> or_default(picking.partner_name, <<"Customer">>),
      picking_name |-> or_default(picking.name, <<>>),
      origin |-> or_default(picking.origin, <<"N/A">>),
      carrier |-> or_default(picking.carrier, <<"Delivery Service">>),
      tracking_ref |-> or_default(picking.carrier_tracking_ref, <<"N/A">>),
      company_name |-> or_default(picking.company_name, <<>>),
      scheduled_date |-> IF picking.scheduled_date = NoTime THEN <<>>
                         ELSE <<picking.scheduled_date, "%Y-%m-%d">>,
      state |-> "Done" ]

picking_prepare_sms_data(picking, template) ==
    LET r == format(template, picking_data(picking)) IN
    IF r.error = "none" THEN [raised |-> "none", message |-> r.text]
    ELSE IF r.error = "KeyError"
    THEN [raised |-> "UserError", placeholder |-> r.key]
    ELSE [raised |-> r.error, placeholder |-> r.index]

\* a check that asks only for a twilio.config record
picking_config_error_record_only(cfgs) == search_config(cfgs) = <<>>

\* _send_delivery_sms: the checks on twilio.config
picking_config_error(cfgs) ==
    LET config == search_config(cfgs) IN
    \/ config = <<>>
    \/ falsy(config[1].account_sid)
    \/ falsy(config[1].auth_token)

\* _send_delivery_sms on picking self with the provider answering answer
_send_delivery_sms(id, self, table, cfgs, answer) ==
    LET sms_config == picking_get_active_config(table)
        twilio_config == search_config(cfgs)
    IN
    IF \/ sms_config = <<>>
       \/ self.sms_sent
       \/ falsy(self.mobile) /\ falsy(self.phone)
       \/ picking_config_error(cfgs)
    THEN skipped(self, table)
    ELSE
    LET i == sms_config[1]
        rendered == picking_prepare_sms_data(self, table[i].message_template)
    IN
    IF rendered.raised # "none" THEN skipped(self, table)
    ELSE
    LET to == recipient_number(self)
        call == [job |-> id, From |-> twilio_config[1].twilio_number, To |-> to,
                 Body |-> rendered.message, outcome |-> answer.outcome]
    IN
    IF status_ok(answer.outcome)
    THEN [ returned |-> TRUE,
           doc |-> [self EXCEPT !.sms_sent = TRUE],
           table |-> [table EXCEPT ![i].total_sent = @ + 1],
           rows |-> <<doc_row("stock.picking", id, to, rendered.message, "sent",
                              "HTTP")>>,
           calls |-> <<call>> ]
    ELSE IF answer.outcome = "rejected" /\ answer.json
    THEN [ returned |-> FALSE,
           doc |-> self,
           table |-> [table EXCEPT ![i].total_failed = @ + 1],
           rows |-> <<doc_row("stock.picking", id, to, rendered.message,
                              "failed", "message")>>,
           calls |-> <<call>> ]
    ELSE [ returned |-> FALSE, doc |-> self, table |-> table, rows |-> <<>>,
           calls |-> <<call>> ]

\* the transfer is validated by the framework's _action_done
done(picking) == [picking EXCEPT !.state = "done"]

_action_done(id) ==
    /\ id \in DOMAIN pickings
    /\ LET picking == done(pickings[id]) IN
       IF picking.code = "outgoing" /\ ~picking.sms_sent
       THEN \E answer \in Answers :
            LET r == _send_delivery_sms(id, picking, picking_configs, configs,
                                        answer)
            IN  /\ Len(ledger) + Len(r.rows) <= MaxLog
                /\ pickings' = [pickings EXCEPT ![id] = r.doc]
                /\ picking_configs' = r.table
                /\ ledger' = ledger \o r.rows
                /\ op' = Op("_action_done", id, {}, r.calls, <<id>>)
       ELSE /\ pickings' = [pickings EXCEPT ![id] = picking]
            /\ op' = Op("_action_done", id, {}, <<>>, <<>>)
            /\ UNCHANGED <<picking_configs, ledger>>
    /\ UNCHANGED <<now, configs, sms, groups, whatsapp, order_configs, orders,
                   inflight, res_partner, wizards>>

\* the form of stock.picking.sms.config record i is opened
picking_preview(i) ==
    /\ i \in DOMAIN picking_configs
    /\ LET r == picking_compute_preview_message(picking_configs[i]) IN
       /\ picking_configs' =
             [picking_configs EXCEPT ![i].preview_message = r.preview_message]
       /\ op' = Op("picking_preview", i, IF r.raised THEN {i} ELSE {}, <<>>, <<>>)
    /\ UNCHANGED <<now, configs, sms, groups, whatsapp, ledger, order_configs,
                   orders, pickings, inflight, res_partner, wizards>>

(***************************************************************************)
(* SpecDocs: sale orders and transfers with the notification configuration *)
(* an operator has saved, under each provider configuration.               *)
(***************************************************************************)
new_order(partner_name, mobile, phone) ==
    [ name |-> <<"S", "O", "1">>, partner_name |-> partner_name,
      mobile |-> mobile, phone |-> phone, amount_total |-> 1250,
      date_order |-> 0, user_name |-> <<"U">>, company_name |-> <<"C">>,
      state |-> "draft", product_names |-> << <<"P">>, Blank, <<"Q">> >>,
      currency |-> <<"$">>, sms_sent |-> FALSE ]

new_picking(code, mobile, phone) ==
    [ name |-> <<"O", "U", "T", "1">>, partner_name |-> <<"A">>,
      mobile |-> mobile, phone |-> phone, origin |-> <<"S", "O", "1">>,
      carrier |-> Blank, carrier_tracking_ref |-> Blank,
      company_name |-> <<"C">>, scheduled_date |-> NoTime,
      code |-> code, state |-> "assigned", sms_sent |-> FALSE ]

\* the configuration tables an operator has left: one active record with
\* each template, an inactive record before or after an active one, two
\* active records, none active, no record
NotificationTables ==
    { <<new_notification_config(TRUE, t)>> : t \in Templates }
    \cup
    { <<new_notification_config(FALSE, OrderDefault),
        new_notification_config(TRUE, <<Text("Hi "), Field("company_name")>>)>>,
      <<new_notification_config(TRUE, <<Text("Hi "), Field("company_name")>>),
        new_notification_config(TRUE, <<Text("Hi "), Field("partner")>>)>>,
      <<new_notification_config(FALSE, OrderDefault)>>,
      <<>> }

Contacts ==
    { <<<<" ", "+", "1">>, Blank>>, <<Blank, <<"+", "2">>>>, <<Blank, Blank>> }

InitDocs ==
    /\ now = 0
    /\ configs \in SweepConfigs
    /\ sms = <<>> /\ groups = <<>> /\ whatsapp = <<>>
    /\ inflight = NoSweeps
    /\ res_partner = Partners
    /\ wizards = <<>>
    /\ ledger = <<>>
    /\ op = Idle
    /\ \/ /\ order_configs \in NotificationTables
          /\ \E c \in Contacts : orders = <<new_order(<<"A">>, c[1], c[2])>>
          /\ picking_configs = <<>> /\ pickings = <<>>
       \/ /\ picking_configs \in NotificationTables
          /\ \E c \in Contacts, code \in {"outgoing", "incoming"} :
                pickings = <<new_picking(code, c[1], c[2])>>
          /\ order_configs = <<>> /\ orders = <<>>

NextDocs ==
    \/ \E id \in DOMAIN orders : action_confirm(id)
    \/ \E id \in DOMAIN orders : action_send_sms_manually(id)
    \/ \E i \in DOMAIN order_configs : order_preview(i)
    \/ \E id \in DOMAIN pickings : _action_done(id)
    \/ \E i \in DOMAIN picking_configs : picking_preview(i)

SpecDocs == InitDocs /\ [][NextDocs]_vars

(***************************************************************************)
(* SpecDispatch: every dispatch handler, on the jobs and documents as the  *)
(* operator left them, under each configuration the operator can have      *)
(* left behind.                                                            *)
(***************************************************************************)
\* the configurations, with and without a WhatsApp sender saved
ChatConfigs ==
    { <<>> } \cup
    { <<[c[1] EXCEPT !.whatsapp_number = number]>> :
          c \in SweepConfigs \ { <<>> }, number \in WhatsappNumbers }

InitChat ==
    /\ now = 0
    /\ configs \in ChatConfigs
    /\ InitDatabase(Database(<<>>, <<>>,
           <<SmsForm("multi", Blank, <<"+", "1", ",", "+", "2">>, Hi)>>))
    /\ ledger = <<>>
    /\ op = Idle

InitDispatch == InitLive \/ InitChat \/ InitDocs

NextDispatch ==
    \/ Tick
    \/ \E id \in DOMAIN sms : action_send_sms(id)
    \/ _cron_send_scheduled_sms
    \/ \E id \in DOMAIN groups : action_send_now(id)
    \/ _cron_send_group_sms
    \/ \E id \in DOMAIN whatsapp : action_send_whatsapp(id)
    \/ \E id \in DOMAIN orders : action_confirm(id)
    \/ \E id \in DOMAIN orders : action_send_sms_manually(id)
    \/ \E id \in DOMAIN pickings : _action_done(id)

SpecDispatch == InitDispatch /\ [][NextDispatch]_vars

(***************************************************************************)
(* SpecLedger: the handlers that write sms.log next to the operations that *)
(* clear logs and delete documents, at one moment.                         *)
(***************************************************************************)
InitLedger == InitLive \/ InitDocs

\* the notification counters are within the model's bound
counted(table) ==
    \A i \in DOMAIN table : table[i].total_sent + table[i].total_failed < MaxLog

NextLedger ==
    \/ \E id \in DOMAIN sms : action_send_sms(id)
    \/ _cron_send_scheduled_sms
    \/ \E id \in DOMAIN groups : action_send_now(id)
    \/ _cron_send_group_sms
    \/ \E id \in DOMAIN orders : action_confirm(id)
    \/ \E id \in DOMAIN orders : action_send_sms_manually(id)
    \/ \E id \in DOMAIN pickings : _action_done(id)
    \/ counted(order_configs) /\ counted(picking_configs)
           /\ action_delete_all_logs
    \/ \E id \in DOMAIN sms : sms_clear_log(id)
    \/ \E id \in DOMAIN groups : group_clear_log(id)
    \/ \E id \in DOMAIN orders : order_cancel(id)
    \/ \E id \in DOMAIN orders : order_unlink(id)

SpecLedger == InitLedger /\ [][NextLedger]_vars

(***************************************************************************)
(* A group whose one recipient has any short mobile number: the recipient  *)
(* normalizer of _send_one on every input up to MaxMobile characters.      *)
(***************************************************************************)
MaxMobile == 3

\* the characters an operator types into res.partner.mobile
MobileKeys == {"+", " ", "-", "(", ")", "9", "1", "7"}

Mobiles == UNION { [1..n -> MobileKeys] : n \in 0..MaxMobile }

\* str(recipient.country_id.phone_code), or "" without a country
CountryCodes == {Blank, <<"9", "1">>}

InitContact ==
    /\ now = 0
    /\ configs \in { <<Connected(form)>> : form \in ConfigForms }
    /\ sms = <<>>
    /\ groups = <<new_group(GroupForm(<<"V">>, Hi, <<1>>))>>
    /\ whatsapp = <<>>
    /\ ledger = <<>>
    /\ op = Idle
    /\ order_configs = <<>>
    /\ picking_configs = <<>>
    /\ orders = <<>>
    /\ pickings = <<>>
    /\ inflight = NoSweeps
    /\ \E mobile \in Mobiles, country_code \in CountryCodes :
           res_partner = <<Partner(<<"A">>, mobile, country_code)>>
    /\ wizards = <<>>

NextContact == \E id \in DOMAIN groups : action_send_now(id)

SpecContact == InitContact /\ [][NextContact]_vars

(***************************************************************************)
(* sms.import.wizard: recipient_multi of a job filled from a spreadsheet.  *)
(***************************************************************************)
\* str.endswith
endswith(s, p) == Len(s) >= Len(p) /\ SubSeq(s, Len(s) - Len(p) + 1, Len(s)) = p

\* str.lower, on the capital letters the headers are typed with
lower_char(c) ==
    CASE c = "M" -> "m" [] c = "N" -> "n" [] c = "S" -> "s" [] OTHER -> c

lower(s) == [i \in DOMAIN s |-> lower_char(s[i])]

mobile_numbers ==
    <<"m", "o", "b", "i", "l", "e", "_", "n", "u", "m", "b", "e", "r", "s">>

\* step 1 of action_import_apply: the file name check
import_name_error(file_name) ==
    \/ falsy(file_name)
    \/ ~ \/ endswith(file_name, <<".", "x", "l", "s">>)
         \/ endswith(file_name, <<".", "x", "l", "s", "x">>)

\* step 4: no header cell is the column of the numbers (-1 in the source,
\* whose columns count from 0; here they count from 1)
NoColumn == 0

\* step 4: target_col_index, the first header cell that is 'mobile_numbers'
\* after strip() and lower()
target_col_index(header_row) ==
    LET hits == { i \in DOMAIN header_row :
                      lower(strip(header_row[i])) = mobile_numbers }
    IN  IF hits = {} THEN NoColumn ELSE Min(hits)

\* step 5: clean_num, the two replace(ch, "") calls
clean_num(str_val) == SelectSeq(str_val, LAMBDA c : c \notin {" ", "-"})

\* the numbers are kept as the cells are, separators included
valid_numbers_raw(rows, col) ==
    LET cells == [i \in DOMAIN rows |->
                     IF Len(rows[i]) < col THEN Blank ELSE strip(rows[i][col])]
    IN  SelectSeq(cells, LAMBDA c : startswith(c, <<"+">>))

\* step 5: valid_numbers, from the rows under the header
valid_numbers(rows, col) ==
    LET cells == [i \in DOMAIN rows |->
                     IF Len(rows[i]) < col THEN Blank ELSE strip(rows[i][col])]
        kept == SelectSeq(cells, LAMBDA c : startswith(c, <<"+">>))
    IN  [i \in DOMAIN kept |-> clean_num(kept[i])]

\* action_import_apply up to step 5: the UserError raised, or final_string
import_apply(self) ==
    IF import_name_error(self.file_name)
    THEN [raised |-> "Please upload a valid Excel file", final_string |-> Blank]
    ELSE IF ~self.readable
    THEN [raised |-> "Could not read the file", final_string |-> Blank]
    ELSE IF self.rows = <<>>
    THEN [raised |-> "The Excel file appears to be empty",
          final_string |-> Blank]
    ELSE
    LET col == target_col_index(self.rows[1]) IN
    IF col = NoColumn
    THEN [raised |-> "Column 'mobile_numbers' not found", final_string |-> Blank]
    ELSE
    LET numbers == valid_numbers(Tail(self.rows), col) IN
    IF numbers = <<>>
    THEN [raised |-> "No valid numbers found", final_string |-> Blank]
    ELSE [raised |-> "none", final_string |-> join(numbers, <<",", " ">>)]

\* action_import_apply on wizard w; step 6 writes the job the wizard was
\* opened from, if the context names one
action_import_apply(w) ==
    /\ w \in DOMAIN wizards
    /\ LET self == wizards[w]
           r == import_apply(self)
       IN  IF r.raised # "none"
           THEN /\ op' = Op("action_import_apply", w, {w}, <<>>, <<>>)
                /\ UNCHANGED sms
           ELSE /\ op' = Op("action_import_apply", w, {}, <<>>, <<>>)
                /\ sms' = IF self.active_id \in DOMAIN sms
                          THEN [sms EXCEPT ![self.active_id].recipient_multi =
                                               r.final_string]
                          ELSE sms
    /\ UNCHANGED <<now, configs, groups, whatsapp, ledger, docs, inflight,
                   res_partner, wizards>>

MaxRows == 2

\* the cells of a sheet: empty, a number typed with separators, a national
\* number, two numbers in one cell
Cells ==
    { Blank, <<" ", "+", "2", "-", "3">>, <<"5">>, <<"+", "1", ",", "5">> }

Headers ==
    { <<mobile_numbers>>,
      << <<"i", "d">>,
         <<" ", "M", "o", "b", "i", "l", "e", "_", "N", "u", "m", "b", "e",
           "r", "s", " ">> >>,
      << <<"m", "o", "b", "i", "l", "e">> >> }

\* a row per cell of `cells`: the cell in the last column, an id before it
Rows(cells, width) ==
    [i \in DOMAIN cells |->
        [j \in 1..width |-> IF j = width THEN cells[i] ELSE <<"7">>]]

\* the sheets of up to MaxRows rows under a header
Sheets ==
    {<<>>} \cup
    UNION { UNION { { <<h>> \o Rows(cells, Len(h)) : cells \in [1..n -> Cells] }
                    : n \in 0..MaxRows } : h \in Headers }

Wizard(file_name, readable, rows, active_id) ==
    [file_name |-> file_name, readable |-> readable, rows |-> rows,
     active_id |-> active_id]

Book == <<"a", ".", "x", "l", "s", "x">>

\* the uploads: every sheet as a workbook, and one sheet under a missing or
\* wrong file name and as a file that openpyxl cannot load
Uploads ==
    { [file_name |-> Book, readable |-> TRUE, rows |-> rows] :
          rows \in Sheets }
    \cup
    { [file_name |-> name, readable |-> readable,
       rows |-> << <<mobile_numbers>>, << <<"+", "1">> >> >>] :
          name \in { Blank, <<"a", ".", "c", "s", "v">>,
                     <<"a", ".", "x", "l", "s">>, Book },
          readable \in BOOLEAN }

InitImport ==
    /\ now = 0
    /\ configs = <<Connected(CHOOSE form \in ConfigForms :
                                 form.account_sid # Blank)>>
    /\ sms = <<new_sms(SmsForm("multi", Blank, <<"+", "7", ",", "8">>, Hi))>>
    /\ groups = <<>>
    /\ whatsapp = <<>>
    /\ ledger = <<>>
    /\ op = Idle
    /\ order_configs = <<>>
    /\ picking_configs = <<>>
    /\ orders = <<>>
    /\ pickings = <<>>
    /\ inflight = NoSweeps
    /\ res_partner = <<>>
    /\ \E file \in Uploads, active_id \in {NoId, 1} :
           wizards = <<Wizard(file.file_name, file.readable, file.rows,
                              active_id)>>

NextImport ==
    \/ \E w \in DOMAIN wizards : action_import_apply(w)
    \/ \E id \in DOMAIN sms : action_send_sms(id)

SpecImport == InitImport /\ [][NextImport]_vars

\* the wizard alone, on every upload
NextUpload == \E w \in DOMAIN wizards : action_import_apply(w)

SpecUpload == InitImport /\ [][NextUpload]_vars

(***************************************************************************)
(* Vocabulary of the properties.                                           *)
(***************************************************************************)
SmsOps == {"action_send_sms", "_cron_send_scheduled_sms"}
GroupOps == {"action_send_now", "_cron_send_group_sms"}
Sweeps == {"_cron_send_scheduled_sms", "_cron_send_group_sms"}

\* the send routine ran to its end on record id in the last invocation
passed(id) == id \in Range(op.executed) /\ id \notin op.raised

\* the HTTP calls the last invocation made for record id
calls_of(id) == SelectSeq(op.calls, LAMBDA c : c.job = id)

\* how many of the calls cs the provider accepted
accepted(cs) == Cardinality({i \in DOMAIN cs : cs[i].outcome = "accepted"})

\* how often x occurs in the sequence xs
occurrences(xs, x) == Cardinality({i \in DOMAIN xs : xs[i] = x})

\* the recipients of a twilio.sms / twilio.whatsapp record: the trimmed,
\* non-empty entries of recipient_single / recipient_multi
recipient_entries(rec) ==
    stripped_nonempty(IF rec.recipient_type = "single"
                      THEN <<rec.recipient_single>>
                      ELSE split(rec.recipient_multi, ","))

\* a schedule time at or before t
Due(rec, t) == rec.state = "scheduled" /\ rec.schedule_datetime \in 0..t

\* the provider configuration is present, connected and has its credentials
ConfigReady(cfgs, sender) ==
    /\ cfgs # <<>>
    /\ cfgs[1].connection_status = "connected"
    /\ cfgs[1].account_sid # Blank
    /\ cfgs[1].auth_token # Blank
    /\ cfgs[1][sender] # Blank

(***************************************************************************)
(* C1                                                                      *)
(***************************************************************************)
\* C1: after _send_to_twilio completes a pass on a twilio.sms record,
\* sent_count + failed_count is the number of its recipients, the trimmed
\* non-empty entries of recipient_single / recipient_multi, whatever the
\* provider answered.
C1_CountsCoverRecipients ==
    op.name \in SmsOps =>
       \A id \in DOMAIN sms :
          passed(id) =>
             sms[id].sent_count + sms[id].failed_count
                = Len(recipient_entries(sms[id]))

(***************************************************************************)
(* C2                                                                      *)
(***************************************************************************)
\* C2: after _send_to_twilio completes a pass over at least one recipient, the
\* state is 'sent' exactly when the provider accepted the call of every
\* recipient, 'failed' exactly when it accepted none, and 'partial' exactly
\* when it accepted some and not all.
C2_StateClassifiesPass ==
    op.name \in SmsOps =>
       \A id \in DOMAIN sms :
          (passed(id) /\ recipient_entries(sms[id]) # <<>>) =>
             LET ok == accepted(calls_of(id))
                 n == Len(recipient_entries(sms[id]))
             IN  /\ (sms[id].state = "sent") <=> (ok = n)
                 /\ (sms[id].state = "failed") <=> (ok = 0)
                 /\ (sms[id].state = "partial") <=> (0 < ok /\ ok < n)

\* a sweep has run a two-recipient job: one call accepted, the other not
C2_PartialPassBySweep ==
    /\ op.name = "_cron_send_scheduled_sms"
    /\ \E id \in DOMAIN sms :
          /\ passed(id)
          /\ Len(calls_of(id)) = 2
          /\ accepted(calls_of(id)) = 1
          /\ sms[id].state = "partial"

(***************************************************************************)
(* C3                                                                      *)
(***************************************************************************)
\* C3: a pass of twilio.sms.group._send_now_execute or of
\* twilio.whatsapp.action_send_whatsapp in which some recipients succeed and
\* some fail leaves the job in state 'partial'.
C3_MixedPassIsPartial ==
    /\ op.name \in GroupOps =>
          \A id \in DOMAIN groups :
             LET ok == accepted(calls_of(id)) IN
             (passed(id) /\ 0 < ok /\ ok < Len(groups[id].recipient_ids))
                => groups[id].state = "partial"
    /\ op.name = "action_send_whatsapp" =>
          \A id \in DOMAIN whatsapp :
             LET ok == accepted(calls_of(id)) IN
             (passed(id) /\ 0 < ok /\ ok < Len(calls_of(id)))
                => whatsapp[id].state = "partial"

(***************************************************************************)
(* C4                                                                      *)
(***************************************************************************)
\* C4: when a sweep runs right after a run of the same sweep, the clock not
\* having moved and nothing else having happened, the second run executes no
\* job the first run executed, makes no transport call for such a job and
\* leaves the ledger as it is.
C4_SecondSweepSkipsExecuted ==
    [][ (op.name \in Sweeps /\ op'.name = op.name /\ now' = now) =>
           /\ \A id \in Range(op.executed) :
                 /\ id \notin Range(op'.executed)
                 /\ \A i \in DOMAIN op'.calls : op'.calls[i].job # id
           /\ ledger' = ledger ]_vars

\* a sweep has just executed a job and made a transport call for it
C4_SweepHasExecuted ==
    /\ op.name \in Sweeps
    /\ \E id \in Range(op.executed) : calls_of(id) # <<>>
    /\ ledger # <<>>

(***************************************************************************)
(* C5                                                                      *)
(***************************************************************************)
\* C5: a sweep at time now executes exactly the jobs that are in state
\* 'scheduled' with schedule_datetime at or before now.
C5_SweepExecutesExactlyDue ==
    [][ /\ op'.name = "_cron_send_scheduled_sms" =>
              Range(op'.executed) = {id \in DOMAIN sms : Due(sms[id], now)}
        /\ op'.name = "_cron_send_group_sms" =>
              Range(op'.executed) = {id \in DOMAIN groups : Due(groups[id], now)}
      ]_vars

\* a sweep has executed a job scheduled one time unit before now
C5_ExecutedJustDue ==
    \/ /\ op.name = "_cron_send_scheduled_sms"
       /\ \E id \in Range(op.executed) : sms[id].schedule_datetime = now - 1
    \/ /\ op.name = "_cron_send_group_sms"
       /\ \E id \in Range(op.executed) : groups[id].schedule_datetime = now - 1

(***************************************************************************)
(* C6                                                                      *)
(***************************************************************************)
\* C6: a sweep runs the send routine on every job that is due when it starts,
\* also after the routine has raised for another job, and a job for which it
\* raised is in state 'failed' when the sweep ends.
C6_SweepSurvivesException ==
    [][ /\ op'.name = "_cron_send_scheduled_sms" =>
              \A id \in DOMAIN sms :
                 Due(sms[id], now) =>
                    /\ id \in Range(op'.executed)
                    /\ id \in op'.raised => sms'[id].state = "failed"
        /\ op'.name = "_cron_send_group_sms" =>
              \A id \in DOMAIN groups :
                 Due(groups[id], now) =>
                    /\ id \in Range(op'.executed)
                    /\ id \in op'.raised => groups'[id].state = "failed"
      ]_vars

\* a sweep in which the routine raised for one job and made its calls for
\* another
C6_RaisedAndSentInOneSweep ==
    /\ op.name \in Sweeps
    /\ \E bad \in op.raised, good \in Range(op.executed) :
          /\ good \notin op.raised
          /\ calls_of(good) # <<>>
          /\ IF op.name = "_cron_send_scheduled_sms"
             THEN sms[bad].state = "failed"
             ELSE groups[bad].state = "failed"

(***************************************************************************)
(* C7                                                                      *)
(***************************************************************************)
\* the ids a job table uses
JobIds ==
    UNION {(1..Len(db.sms)) \cup (1..Len(db.groups)) : db \in SweepDatabases}

\* every job due when a sweep starts is terminal when it ends
C7_DueJobsSettle ==
    [][ /\ op'.name = "_cron_send_scheduled_sms" =>
              \A id \in DOMAIN sms :
                 Due(sms[id], now) => sms'[id].state \in Terminal
        /\ op'.name = "_cron_send_group_sms" =>
              \A id \in DOMAIN groups :
                 Due(groups[id], now) => groups'[id].state \in Terminal
      ]_vars

\* record id of the table is in state 'scheduled'
Scheduled(table, id) == id \in DOMAIN table /\ table[id].state = "scheduled"

\* a scheduled job that has a schedule time eventually leaves 'scheduled'
C7_ScheduledJobsLeave ==
    \A id \in JobIds :
       /\ (Scheduled(sms, id) /\ sms[id].schedule_datetime # NoTime)
          ~> ~Scheduled(sms, id)
       /\ (Scheduled(groups, id) /\ groups[id].schedule_datetime # NoTime)
          ~> ~Scheduled(groups, id)

\* C7: every job that is 'scheduled' with schedule_datetime at or before now
\* when a sweep starts is in a terminal state when that sweep ends; and with
\* the sweeps recurring fairly, every scheduled job that has a schedule time
\* eventually leaves 'scheduled'.
C7_SweepsSettleScheduledJobs == C7_DueJobsSettle /\ C7_ScheduledJobsLeave

\* the clock has reached a job's schedule time and a sweep has settled it
C7_SettledBySweep ==
    /\ now > 0
    /\ \/ /\ op.name = "_cron_send_scheduled_sms"
          /\ \E id \in Range(op.executed) :
                sms[id].schedule_datetime = now /\ sms[id].state \in Terminal
       \/ /\ op.name = "_cron_send_group_sms"
          /\ \E id \in Range(op.executed) :
                /\ groups[id].schedule_datetime = now
                /\ groups[id].state \in Terminal

(***************************************************************************)
(* C8                                                                      *)
(***************************************************************************)
\* C8: a job on which the send routine is run while the provider
\* configuration is missing, not connected or lacks a credential keeps the
\* state it had, whether action_send_sms / action_send_now or a sweep ran it.
C8_NoConfigKeepsState ==
    [][ ~ConfigReady(configs, "twilio_number") =>
           /\ op'.name \in SmsOps =>
                 \A id \in Range(op'.executed) : sms'[id].state = sms[id].state
           /\ op'.name \in GroupOps =>
                 \A id \in Range(op'.executed) :
                    groups'[id].state = groups[id].state
      ]_vars

(***************************************************************************)
(* C9                                                                      *)
(***************************************************************************)
\* C9: no handler makes a transport call while the provider configuration is
\* absent, not connected, or has a blank account_sid, auth_token or sender
\* number (whatsapp_number for WhatsApp, twilio_number otherwise).
C9_NoCallWithoutConfig ==
    op.calls # <<>> =>
       ConfigReady(configs, IF op.name = "action_send_whatsapp"
                            THEN "whatsapp_number" ELSE "twilio_number")

(***************************************************************************)
(* C10                                                                     *)
(***************************************************************************)
\* C10: in a completed pass over a multi-recipient twilio.sms or
\* twilio.whatsapp record, every recipient entry gets exactly one transport
\* call, whatever the provider answered to the calls before it.
C10_OneCallPerRecipient ==
    /\ op.name \in SmsOps =>
          \A id \in DOMAIN sms :
             (passed(id) /\ sms[id].recipient_type = "multi") =>
                \A x \in Range(recipient_entries(sms[id])) :
                   Cardinality({i \in DOMAIN calls_of(id) : calls_of(id)[i].To = x})
                      = occurrences(recipient_entries(sms[id]), x)
    /\ op.name = "action_send_whatsapp" =>
          \A id \in DOMAIN whatsapp :
             (passed(id) /\ whatsapp[id].recipient_type = "multi") =>
                \A x \in Range(recipient_entries(whatsapp[id])) :
                   Cardinality({i \in DOMAIN calls_of(id) :
                                   calls_of(id)[i].To = wa_prefix(x)})
                      = occurrences(recipient_entries(whatsapp[id]), x)

\* a pass over three recipients whose first call ended in an exception and
\* whose second was rejected
C10_CallsAfterFailures ==
    /\ op.name = "action_send_sms"
    /\ \E id \in DOMAIN sms :
          /\ passed(id)
          /\ Len(calls_of(id)) = 3
          /\ calls_of(id)[1].outcome = "exception"
          /\ calls_of(id)[2].outcome = "rejected"

(***************************************************************************)
(* C11                                                                     *)
(***************************************************************************)
\* C11: an execution pass appends exactly one sms.log row per attempted
\* recipient: a completed pass of a twilio.sms or twilio.sms.group record
\* grows the ledger by the number of transport calls it made (so a pass over
\* 3 recipients of which one fails leaves 3 new rows).
C11_OneRowPerAttempt ==
    [][ (op'.name \in {"action_send_sms", "action_send_now"}
         /\ op'.executed # <<>> /\ op'.raised = {})
        => Len(ledger') = Len(ledger) + Len(op'.calls) ]_vars

(***************************************************************************)
(* C12                                                                     *)
(***************************************************************************)
DocOps == {"action_confirm", "action_send_sms_manually", "_action_done"}

\* the numbers an sms.log row names in to_number
row_numbers(row) ==
    LET parts == split(row.to_number, ",")
    IN  {strip(parts[i]) : i \in DOMAIN parts}

\* the call is recorded in the ledger as a failure to its number
recorded_failed(number) ==
    \E i \in DOMAIN ledger :
       ledger[i].status = "failed" /\ number \in row_numbers(ledger[i])

failed_calls(cs) == SelectSeq(cs, LAMBDA c : c.outcome # "accepted")

\* C12: in every dispatch path, a transport call that ends in a provider
\* rejection or in a transport exception is recorded in the ledger with
\* outcome 'failed' and counted as a failure, and is not raised out of the
\* handler: after a handler that made such a call, the handler has not
\* raised, a 'failed' sms.log row names the number called, and failed_count
\* of a twilio.sms record is the number of such calls.
C12_FailedCallRecorded ==
    \A i \in DOMAIN op.calls :
       op.calls[i].outcome # "accepted" =>
          /\ op.calls[i].job \notin op.raised
          /\ op.name \in SmsOps \cup GroupOps \cup DocOps =>
                recorded_failed(op.calls[i].To)
          /\ op.name = "action_send_whatsapp" =>
                recorded_failed(Tail(op.calls[i].To))
          /\ op.name \in SmsOps =>
                sms[op.calls[i].job].failed_count
                   = Len(failed_calls(calls_of(op.calls[i].job)))

(***************************************************************************)
(* C13                                                                     *)
(***************************************************************************)
\* C13: a twilio.sms job in a terminal state (sent, partial or failed) never
\* moves back to 'draft' or 'scheduled', whatever handler runs: submit
\* (action_send_sms), sweep, or an edit of the schedule.
C13_TerminalStaysTerminal ==
    [][ \A id \in DOMAIN sms :
           sms[id].state \in Terminal =>
              sms'[id].state \notin {"draft", "scheduled"} ]_vars

(***************************************************************************)
(* C14                                                                     *)
(***************************************************************************)
\* C14: no two executions of the same twilio.sms job overlap. When a sweep
\* runs its loop right after another execution (a manual action_send_sms or
\* another sweep) that found the job scheduled and due and made its calls,
\* the sweep makes no call for that job: no recipient of the job gets a
\* second transport call for the same due transition.
C14_NoSecondCallForDueJob ==
    [][ (op.name \in SmsOps /\ op'.name = "_cron_send_scheduled_sms")
        => \A i \in DOMAIN op.calls, j \in DOMAIN op'.calls :
              ~ ( /\ op.calls[i].job = op'.calls[j].job
                  /\ op.calls[i].To = op'.calls[j].To ) ]_vars

(***************************************************************************)
(* C15                                                                     *)
(***************************************************************************)
\* the submit handlers' own checks pass on the record
submittable_sms(rec) ==
    /\ ~falsy(rec.message_body)
    /\ ~(rec.recipient_type = "multi" /\ falsy(rec.recipient_multi))

submittable_group(rec) ==
    ~falsy(rec.name) /\ ~falsy(rec.message_body_group)

InFuture(rec, clock) ==
    rec.schedule_datetime # NoTime /\ rec.schedule_datetime > clock

Stale(rec, clock) ==
    rec.schedule_datetime # NoTime /\ rec.schedule_datetime < clock

\* C16: saving a job (twilio.sms or twilio.sms.group) with a
\* schedule_datetime earlier than the current time is rejected: no step
\* leaves a job with a newly written schedule time that is earlier than the
\* clock. The check runs only when schedule_datetime is written: a job whose
\* saved time has passed is still executed and written by the handlers, which
\* raise on it only for a missing configuration or recipient list.
C16_PastScheduleRejectedOnWrite ==
    [][ /\ \A id \in DOMAIN sms :
             /\ sms'[id].schedule_datetime # sms[id].schedule_datetime
                   => ~Stale(sms'[id], now)
             /\ (Stale(sms[id], now) /\ op'.name \in SmsOps
                 /\ id \in Range(op'.executed)) =>
                   /\ id \in op'.raised =>
                         (sms_config_error(configs) \/ sms_recipient_error(sms[id]))
                   /\ id \notin op'.raised => sms'[id].state \in Terminal
        /\ \A id \in DOMAIN groups :
             /\ groups'[id].schedule_datetime # groups[id].schedule_datetime
                   => ~Stale(groups'[id], now)
             /\ (Stale(groups[id], now) /\ op'.name \in GroupOps
                 /\ id \in Range(op'.executed)) =>
                   /\ id \in op'.raised =>
                         (group_config_error(configs)
                          \/ groups[id].recipient_ids = <<>>)
                   /\ id \notin op'.raised =>
                         groups'[id].state \in {"sent", "failed"} ]_vars

\* a job saved with a future time was executed after that time had passed,
\* and a pass wrote its results
C16_ExecutedAfterTimePassed ==
    /\ op.name = "_cron_send_scheduled_sms"
    /\ \E id \in DOMAIN sms :
          /\ passed(id)
          /\ Stale(sms[id], now)
          /\ sms[id].state \in Terminal

(***************************************************************************)
(* C17                                                                     *)
(***************************************************************************)
\* C17: in every reachable state a twilio.sms job in state 'scheduled' has a
\* schedule_datetime set (clearing the schedule time of a scheduled job
\* returns it to 'draft'), so the sweep's search can select it once due.
C17_ScheduledHasScheduleTime ==
    \A id \in DOMAIN sms :
       sms[id].state = "scheduled" => sms[id].schedule_datetime # NoTime

(***************************************************************************)
(* C18                                                                     *)
(***************************************************************************)
\* C18: once the confirmation SMS of a sale order has been sent (sms_sent is
\* true), a further action_confirm on the order makes no transport call, adds
\* no ledger row and leaves sms_sent true; only action_send_sms_manually
\* makes a call for such an order or clears its sms_sent. In the same way
\* _action_done on a picking whose sms_sent is true makes no call and adds no
\* row.
C18_SentDocumentNotResent ==
    [][ /\ \A id \in DOMAIN orders :
             orders[id].sms_sent =>
                /\ (op'.name = "action_confirm" /\ op'.id = id) =>
                      /\ op'.calls = <<>>
                      /\ ledger' = ledger
                      /\ order_configs' = order_configs
                /\ (calls_of(id)' # <<>> \/ ~orders'[id].sms_sent) =>
                      op'.name = "action_send_sms_manually"
        /\ \A id \in DOMAIN pickings :
             pickings[id].sms_sent =>
                /\ (op'.name = "_action_done" /\ op'.id = id) =>
                      /\ op'.calls = <<>>
                      /\ ledger' = ledger
                      /\ picking_configs' = picking_configs
                /\ calls_of(id)' = <<>>
                /\ pickings'[id].sms_sent ]_vars

\* a sent order was confirmed again
C18_ConfirmedAgainAfterSent ==
    /\ op.name = "action_confirm"
    /\ op.calls = <<>>
    /\ orders[op.id].sms_sent
    /\ \E i \in DOMAIN ledger :
          ledger[i].source_model = "sale.order" /\ ledger[i].status = "sent"

(***************************************************************************)
(* C19                                                                     *)
(***************************************************************************)
\* the placeholders of a template, by position, that are not among keys
not_keys(template, keys) ==
    {i \in DOMAIN template :
        \/ "index" \in DOMAIN template[i]
        \/ "field" \in DOMAIN template[i] /\ template[i].field \notin keys}

\* what a placeholder is called
placeholder_name(part) ==
    IF "index" \in DOMAIN part THEN part.index ELSE part.field

\* the render result r fails naming the first placeholder of template that is
\* not among keys if there is one, and succeeds otherwise
fails_naming(r, template, keys) ==
    IF not_keys(template, keys) = {}
    THEN r.raised = "none"
    ELSE /\ r.raised # "none"
         /\ r.placeholder = placeholder_name(template[Min(not_keys(template, keys))])

shows_error(preview_message) ==
    /\ preview_message # <<>>
    /\ preview_message[1] = "Error in template: Invalid placeholder "

\* C20: the preview render never raises, and for every template the preview
\* shows an error text exactly when the production render of the same
\* template fails, for order and delivery templates alike.
C20_PreviewAgreesWithProduction ==
    /\ op.name = "order_preview" =>
          /\ op.raised = {}
          /\ \A id \in DOMAIN orders :
                shows_error(order_configs[op.id].preview_message)
                   <=> order_prepare_sms_data(orders[id],
                          order_configs[op.id].message_template).raised # "none"
    /\ op.name = "picking_preview" =>
          /\ op.raised = {}
          /\ \A id \in DOMAIN pickings :
                shows_error(picking_configs[op.id].preview_message)
                   <=> picking_prepare_sms_data(pickings[id],
                          picking_configs[op.id].message_template).raised # "none"

(***************************************************************************)
(* Recipient normalization (group SMS).                                    *)
(***************************************************************************)
Separators == {" ", "-", "(", ")"}

\* the characters of s that are not separators, in order
RECURSIVE without_separators(_)
without_separators(s) ==
    IF s = <<>> THEN <<>>
    ELSE (IF Head(s) \in Separators THEN <<>> ELSE <<Head(s)>>)
         \o without_separators(Tail(s))

\* the one recipient of the group the last handler ran for
op_recipient == res_partner[groups[op.id].recipient_ids[1]]

\* C21: the number _send_one hands to the provider is the recipient's mobile
\* without spaces, hyphens and parentheses, and then: unchanged when that
\* starts with "+", with "+" put in front when it starts with the recipient's
\* country code, and with "+" and the country code put in front otherwise.
C21_RecipientNormalized ==
    (op.name = "action_send_now" /\ op.calls # <<>>) =>
        LET number == without_separators(op_recipient.mobile)
            code == op_recipient.country_code
            to == op.calls[1].To
        IN  IF number # <<>> /\ Head(number) = "+" THEN to = number
            ELSE IF startswith(number, code) THEN to = <<"+">> \o number
            ELSE to = <<"+">> \o code \o number

\* a number with a separator that starts with its country code was sent to
C21_NationalNumberSent ==
    /\ op.name = "action_send_now"
    /\ op.calls # <<>>
    /\ op_recipient.mobile = <<"9", "1", "-">> \/ op_recipient.mobile = <<"(", "9", "1">>
    /\ op_recipient.country_code = <<"9", "1">>
    /\ op.calls[1].To = <<"+", "9", "1">>

\* the characters of a number that are neither separators nor the "+" sign
digits_of(number) == SelectSeq(without_separators(number), LAMBDA c : c # "+")

\* C22: a recipient whose mobile is empty or holds only spaces and separators
\* gets no call from a group pass and the pass counts no success for it; and
\* no call of a group pass goes to a number without a digit.
C22_BlankMobileGetsNoCall ==
    (op.name = "action_send_now" /\ op.executed # <<>>) =>
        /\ without_separators(op_recipient.mobile) = <<>> =>
               /\ op.calls = <<>>
               /\ op.id \notin op.raised => groups[op.id].state = "failed"
        /\ \A i \in DOMAIN op.calls : digits_of(op.calls[i].To) # <<>>

(***************************************************************************)
(* Bulk recipients.                                                        *)
(***************************************************************************)
\* the job wizard w was opened from, when the context names one
target(w) == wizards[w].active_id

\* C23: the recipients of a bulk job are the comma-separated, trimmed entries
\* that begin with "+": a pass on a multi job calls the provider only for
\* such entries, and an import leaves only such entries in recipient_multi.
C23_BulkEntriesBeginWithPlus ==
    /\ op.name \in SmsOps =>
           \A i \in DOMAIN op.calls :
               sms[op.calls[i].job].recipient_type = "multi"
                   => startswith(op.calls[i].To, <<"+">>)
    /\ (op.name = "action_import_apply" /\ op.raised = {}
            /\ target(op.id) \in DOMAIN sms) =>
           LET entries == stripped_nonempty(
                              split(sms[target(op.id)].recipient_multi, ","))
           IN  \A i \in DOMAIN entries : startswith(entries[i], <<"+">>)

\* the header of the sheet has a column named mobile_numbers, whatever the
\* case and the spaces around the name
has_column(rows) ==
    \E j \in DOMAIN rows[1] : lower(strip(rows[1][j])) = mobile_numbers

\* the cells of the rows under the header in the first such column
column(rows) ==
    LET j == Min({k \in DOMAIN rows[1] :
                      lower(strip(rows[1][k])) = mobile_numbers})
    IN  [i \in 1..(Len(rows) - 1) |-> rows[i + 1][j]]

\* the numbers an import keeps: the cells that begin with "+" once trimmed,
\* without their spaces and hyphens
kept_numbers(rows) ==
    LET plus == SelectSeq(column(rows), LAMBDA c : strip(c) # <<>>
                                                   /\ Head(strip(c)) = "+")
    IN  [i \in DOMAIN plus |->
            SelectSeq(plus[i], LAMBDA c : c # " " /\ c # "-")]

\* the upload cannot be imported: wrong file name, unreadable, empty, no
\* mobile_numbers column, or no number beginning with "+"
unusable(self) ==
    \/ ~ \/ endswith(self.file_name, <<".", "x", "l", "s">>)
         \/ endswith(self.file_name, <<".", "x", "l", "s", "x">>)
    \/ ~self.readable
    \/ self.rows = <<>>
    \/ ~has_column(self.rows)
    \/ kept_numbers(self.rows) = <<>>

\* C24: action_import_apply raises, and leaves every job as it was, when the
\* file has a wrong extension, is unreadable or empty, has no first-row
\* column named mobile_numbers (case and surrounding spaces aside) or holds
\* no number beginning with "+"; otherwise it does not raise and replaces the
\* target job's recipient_multi, and nothing else, by the kept numbers joined
\* with ", ".
C24_ImportReplacesOrRaises ==
    [][ op'.name = "action_import_apply" =>
            LET self == wizards[op'.id] IN
            IF unusable(self)
            THEN op'.raised # {} /\ sms' = sms
            ELSE /\ op'.raised = {}
                 /\ \A id \in DOMAIN sms :
                        sms'[id] =
                            IF id = self.active_id
                            THEN [sms[id] EXCEPT !.recipient_multi =
                                     join(kept_numbers(self.rows), <<",", " ">>)]
                            ELSE sms[id]
      ]_vars

\* an import wrote the one number of a two-row sheet that begins with "+",
\* found in the second column, and dropped the other cell
C24_ImportedOneOfTwo ==
    /\ op.name = "action_import_apply"
    /\ op.raised = {}
    /\ Len(wizards[op.id].rows) = 3
    /\ wizards[op.id].rows[2][1] = <<"7">>
    /\ wizards[op.id].rows[2][2] = <<" ", "+", "2", "-", "3">>
    /\ wizards[op.id].rows[3][2] = <<"5">>
    /\ target(op.id) \in DOMAIN sms
    /\ sms[target(op.id)].recipient_multi = <<"+", "2", "3">>

(***************************************************************************)
(* Frame of the dispatch handlers.                                         *)
(***************************************************************************)
DispatchOps == SmsOps \cup GroupOps \cup DocOps \cup {"action_send_whatsapp"}

\* C25: a dispatch handler (single / multi send, group send, order or
\* delivery confirmation, WhatsApp send, either sweep) leaves the
\* twilio.config table as it was: no record added or removed, no field of a
\* record changed.
C25_DispatchKeepsConfig ==
    [][op'.name \in DispatchOps => configs' = configs]_vars

\* a dispatch pass under a connected configuration had a request fail with an
\* exception
C25_PassWithFailedRequest ==
    /\ op.name \in DispatchOps
    /\ \E i \in DOMAIN op.calls : op.calls[i].outcome = "exception"
    /\ configs # <<>>
    /\ configs[1].connection_status = "connected"

(***************************************************************************)
(* The configuration record.                                               *)
(***************************************************************************)
\* C26: the twilio.config table never holds more than one record.
C26_AtMostOneConfig == Len(configs) <= 1

(***************************************************************************)
(* The ledger.                                                             *)
(***************************************************************************)
\* xs is the beginning of ys
IsPrefix(xs, ys) == Len(xs) <= Len(ys) /\ SubSeq(ys, 1, Len(xs)) = xs

\* C27: sms.log is append-only: every step either leaves the rows there are
\* as they are and in place, adding new rows after them at most, or is the
\* bulk purge action_delete_all_logs, which removes every row. Sending,
\* sweeping, clearing a job's log and deleting an order remove and change
\* no row.
C27_LedgerAppendOnly ==
    [][IsPrefix(ledger, ledger') \/ action_delete_all_logs]_vars

(***************************************************************************)
(* Counts of a pass.                                                       *)
(***************************************************************************)
\* C28: after a completed pass on a twilio.sms job, whatever passes went
\* before, sent_count and failed_count are the numbers of calls of this pass
\* that the provider accepted and did not accept, and log_success and
\* log_failure hold one line for each of them.
C28_CountsOfLastPass ==
    op.name \in SmsOps =>
        \A id \in DOMAIN sms :
            passed(id) =>
                /\ sms[id].sent_count = accepted(calls_of(id))
                /\ sms[id].failed_count
                       = Len(calls_of(id)) - accepted(calls_of(id))
                /\ Len(sms[id].log_success) = sms[id].sent_count
                /\ Len(sms[id].log_failure) = sms[id].failed_count

\* a pass in which both calls failed, on a job with a row of numbers sent by
\* an earlier pass
C28_FailedPassAfterSentPass ==
    /\ op.name \in SmsOps
    /\ \E id \in DOMAIN sms :
          /\ passed(id)
          /\ Len(calls_of(id)) = 2
          /\ accepted(calls_of(id)) = 0
          /\ sms[id].sent_count = 0
    /\ Len(ledger) = 2
    /\ ledger[1].status = "sent"

(***************************************************************************)
(* Addresses handed to the provider.                                       *)
(***************************************************************************)
\* the address starts with "whatsapp:"
prefixed(address) == address # <<>> /\ Head(address) = "whatsapp:"

\* C29: in every call of action_send_whatsapp both From and To start with
\* "whatsapp:", followed by the configured WhatsApp sender and by the
\* recipient; in every call of the SMS handlers (single / multi, group,
\* order, delivery, the sweeps) neither From nor To does.
C29_PrefixOnWhatsappOnly ==
    \A i \in DOMAIN op.calls :
        IF op.name = "action_send_whatsapp"
        THEN /\ prefixed(op.calls[i].From)
             /\ Tail(op.calls[i].From) = configs[1].whatsapp_number
             /\ prefixed(op.calls[i].To)
             /\ \E x \in Range(recipient_entries(whatsapp[op.calls[i].job])) :
                    Tail(op.calls[i].To) = x
        ELSE ~prefixed(op.calls[i].From) /\ ~prefixed(op.calls[i].To)

\* a WhatsApp pass made two calls
C29_WhatsappCalls ==
    /\ op.name = "action_send_whatsapp"
    /\ Len(op.calls) = 2
    /\ op.calls[1].To = <<"whatsapp:", "+", "1">>
    /\ op.calls[2].From = <<"whatsapp:", "+", "8">>

(***************************************************************************)
(* Frame of the sweeps.                                                    *)
(***************************************************************************)
\* the job is not submitted, or its time has not come
NotDue(rec, clock) == rec.state # "scheduled" \/ rec.schedule_datetime > clock

\* C30: a sweep leaves every job that is not due as it was: a job whose
\* state is not 'scheduled' or whose schedule_datetime is after now has the
\* same fields (state, counts, logs) after the sweep as before it and gets no
\* call; the sweep touches no job of the other kind, and without a due job
\* of its kind it adds no sms.log row.
C30_SweepLeavesOthers ==
    [][ /\ op'.name = "_cron_send_scheduled_sms" =>
              /\ \A id \in DOMAIN sms :
                    NotDue(sms[id], now) =>
                        /\ sms'[id] = sms[id]
                        /\ \A i \in DOMAIN op'.calls : op'.calls[i].job # id
              /\ groups' = groups
              /\ (\A id \in DOMAIN sms : NotDue(sms[id], now))
                     => ledger' = ledger
        /\ op'.name = "_cron_send_group_sms" =>
              /\ \A id \in DOMAIN groups :
                    NotDue(groups[id], now) =>
                        /\ groups'[id] = groups[id]
                        /\ \A i \in DOMAIN op'.calls : op'.calls[i].job # id
              /\ sms' = sms
              /\ (\A id \in DOMAIN groups : NotDue(groups[id], now))
                     => ledger' = ledger
      ]_vars

\* a sweep sent for one job while another job was scheduled for later
C30_SweptBesideLaterJob ==
    /\ op.name \in Sweeps
    /\ op.calls # <<>>
    /\ \/ \E id \in DOMAIN sms :
             sms[id].state = "scheduled" /\ sms[id].schedule_datetime > now
       \/ \E id \in DOMAIN groups :
             groups[id].state = "scheduled" /\ groups[id].schedule_datetime > now

(***************************************************************************)
(* SpecReject: the two send buttons on forms saved incomplete (no message, *)
(* no recipient) and on complete ones, sent at once or submitted for later. *)
(***************************************************************************)
RejectDatabases ==
    { Database(<<SmsForm("single", Blank, Blank, Hi)>>, <<>>, <<>>),
      Database(<<SmsForm("multi", Blank, Blank, Hi)>>, <<>>, <<>>),
      Database(<<SmsForm("single", <<"+", "1">>, Blank, Blank)>>, <<>>, <<>>),
      Database(<<SmsForm("single", <<"+", "1">>, Blank, Hi)>>, <<>>, <<>>),
      Database(<<>>, <<GroupForm(<<"V">>, Hi, <<>>)>>, <<>>),
      Database(<<>>, <<GroupForm(<<"V">>, Blank, <<1>>)>>, <<>>),
      Database(<<>>, <<GroupForm(<<"V">>, Hi, <<1>>)>>, <<>>) }

InitReject ==
    /\ now = 0
    /\ configs \in SweepConfigs
    /\ \E db \in RejectDatabases : InitDatabase(db)
    /\ ledger = <<>>
    /\ op = Idle

NextReject ==
    \/ Tick
    \/ \E id \in DOMAIN sms, t \in Times : sms_write_schedule(id, t)
    \/ \E id \in DOMAIN sms : action_send_sms(id)
    \/ \E id \in DOMAIN groups, t \in Times : group_write_schedule(id, t)
    \/ \E id \in DOMAIN groups : action_send_now(id)

SpecReject == InitReject /\ [][NextReject]_vars

(***************************************************************************)
(* C31                                                                     *)
(***************************************************************************)
\* the job has no recipient field filled in
no_recipients(rec) ==
    IF rec.recipient_type = "single"
    THEN rec.recipient_single = Blank
    ELSE rec.recipient_multi = Blank

\* the button sends at once: no schedule, or a schedule that is not ahead
Immediate(rec) ==
    rec.schedule_datetime = NoTime \/ rec.schedule_datetime <= now

\* C31: a send button pressed on a job with an empty message, or pressed to
\* send at once on a job with no recipients (empty recipient_single or
\* recipient_multi, a group without recipient_ids), raises without any
\* transport call and leaves the job's record and the ledger as they were.
C31_EmptySendRejected ==
    [][ /\ \A id \in DOMAIN sms :
              /\ op'.name = "action_send_sms" /\ op'.id = id
              /\ \/ sms[id].message_body = Blank
                 \/ Immediate(sms[id]) /\ no_recipients(sms[id])
              => /\ op'.raised = {id}
                 /\ op'.calls = <<>>
                 /\ sms' = sms
                 /\ ledger' = ledger
        /\ \A id \in DOMAIN groups :
              /\ op'.name = "action_send_now" /\ op'.id = id
              /\ \/ groups[id].message_body_group = Blank
                 \/ Immediate(groups[id]) /\ groups[id].recipient_ids = <<>>
              => /\ op'.raised = {id}
                 /\ op'.calls = <<>>
                 /\ groups' = groups
                 /\ ledger' = ledger
      ]_vars

\* a single send with a message but no recipient was rejected although the
\* provider configuration was ready
C31_RejectedWithoutRecipient ==
    /\ op.name = "action_send_sms"
    /\ op.raised = {op.id}
    /\ sms[op.id].recipient_type = "single"
    /\ sms[op.id].recipient_single = Blank
    /\ sms[op.id].message_body # Blank
    /\ Immediate(sms[op.id])
    /\ ConfigReady(configs, "twilio_number")

(***************************************************************************)
(* C32                                                                     *)
(***************************************************************************)
\* the positions of the group's recipient_ids whose partner has no mobile
without_mobile(rec) ==
    {i \in DOMAIN rec.recipient_ids :
        res_partner[rec.recipient_ids[i]].mobile = Blank}

Greeting(i) ==
    << Text(IF i = 1 THEN "Hi " ELSE "Yo "), Field("company_name") >>

ActiveTables ==
    { [i \in 1..n |-> new_notification_config(on[i], Greeting(i))] :
          n \in 0..MaxConfigs, on \in [1..MaxConfigs -> BOOLEAN] }

InitActive ==
    /\ now = 0
    /\ configs \in SweepConfigs
    /\ sms = <<>> /\ groups = <<>> /\ whatsapp = <<>>
    /\ inflight = NoSweeps
    /\ res_partner = Partners
    /\ wizards = <<>>
    /\ ledger = <<>>
    /\ op = Idle
    /\ \/ /\ order_configs \in ActiveTables
          /\ \E c \in Contacts : orders = <<new_order(<<"A">>, c[1], c[2])>>
          /\ picking_configs = <<>> /\ pickings = <<>>
       \/ /\ picking_configs \in ActiveTables
          /\ \E c \in Contacts, code \in {"outgoing", "incoming"} :
                pickings = <<new_picking(code, c[1], c[2])>>
          /\ order_configs = <<>> /\ orders = <<>>

NextActive ==
    \/ \E id \in DOMAIN orders : action_confirm(id)
    \/ \E id \in DOMAIN orders : action_send_sms_manually(id)
    \/ \E id \in DOMAIN pickings : _action_done(id)

SpecActive == InitActive /\ [][NextActive]_vars

(***************************************************************************)
(* C33                                                                     *)
(***************************************************************************)
\* the document has a number to send to
has_contact(doc) == doc.mobile # Blank \/ doc.phone # Blank

\* the records of a configuration table whose counters the step changed
counted_on(table, table_after) ==
    {i \in DOMAIN table :
        \/ table_after[i].total_sent # table[i].total_sent
        \/ table_after[i].total_failed # table[i].total_failed}

\* the active records of a table, by position
is_active_in(table) == {i \in DOMAIN table : table[i].is_active}

\* C33: a confirmation or a validation sends exactly when an active
\* configuration of its kind exists (the provider being ready, the document
\* having a number and no SMS yet); what it sends and counts is on an active
\* record, the first one for an order and the one with the highest id for a
\* delivery. With no active configuration it makes no transport call, adds no
\* ledger entry and leaves sms_sent as it was.
C33_ActiveConfigDecides ==
    [][ /\ \A id \in DOMAIN orders :
              op'.name = "action_confirm" /\ op'.id = id =>
                 LET on == is_active_in(order_configs) IN
                 /\ on = {} =>
                       /\ op'.calls = <<>>
                       /\ ledger' = ledger
                       /\ orders'[id].sms_sent = orders[id].sms_sent
                       /\ order_configs' = order_configs
                 /\ (/\ on # {}
                     /\ ConfigReady(configs, "twilio_number")
                     /\ has_contact(orders[id])
                     /\ ~orders[id].sms_sent) => Len(op'.calls) = 1
                 /\ op'.calls # <<>> =>
                       /\ on # {}
                       /\ counted_on(order_configs, order_configs')
                              = {CHOOSE i \in on : \A j \in on : i <= j}
                       /\ Head(op'.calls[1].Body)
                              = Greeting(CHOOSE i \in on :
                                             \A j \in on : i <= j)[1].text
        /\ \A id \in DOMAIN pickings :
              op'.name = "_action_done" /\ op'.id = id =>
                 LET on == is_active_in(picking_configs) IN
                 /\ on = {} =>
                       /\ op'.calls = <<>>
                       /\ ledger' = ledger
                       /\ pickings'[id].sms_sent = pickings[id].sms_sent
                       /\ picking_configs' = picking_configs
                 /\ (/\ on # {}
                     /\ ConfigReady(configs, "twilio_number")
                     /\ has_contact(pickings[id])
                     /\ pickings[id].code = "outgoing"
                     /\ ~pickings[id].sms_sent) => Len(op'.calls) = 1
                 /\ op'.calls # <<>> =>
                       /\ on # {}
                       /\ counted_on(picking_configs, picking_configs')
                              \subseteq {CHOOSE i \in on : \A j \in on : i >= j}
                       /\ Head(op'.calls[1].Body)
                              = Greeting(CHOOSE i \in on :
                                             \A j \in on : i >= j)[1].text
      ]_vars

\* a delivery SMS was sent and counted on the second of two active records
C33_NewestOfTwoActive ==
    /\ op.name = "_action_done"
    /\ op.calls # <<>>
    /\ Len(picking_configs) = 2
    /\ \A i \in DOMAIN picking_configs : picking_configs[i].is_active
    /\ picking_configs[2].total_sent = 1
    /\ picking_configs[1].total_sent = 0

(***************************************************************************)
(* action_confirm and _action_done on a record set of several documents.   *)
(***************************************************************************)
\* the loop gives up at the first document whose SMS was not sent
after_attempt_until_failure(ids, r) == IF r.returned THEN Tail(ids) ELSE <<>>

\* "for order in self" / "for picking in self": the documents still to come
\* once the send routine has returned r for the first of ids; the try/except
\* around the call only logs
after_attempt(ids, r) == Tail(ids)

\* what a loop over a record set has done so far
batch_tracking(recs, table) ==
    [recs |-> recs, table |-> table, rows |-> <<>>, calls |-> <<>>,
     executed |-> <<>>]

\* action_confirm: the loop over self, the provider answering answers[k] to
\* the k-th order
RECURSIVE confirm_loop(_, _, _, _)
confirm_loop(ids, cfgs, answers, acc) ==
    IF ids = <<>> THEN acc
    ELSE
    LET id == Head(ids)
        r == _send_order_confirmation_sms(id, acc.recs[id], acc.table, cfgs,
                                          Head(answers))
    IN  confirm_loop(after_attempt(ids, r), cfgs, Tail(answers),
            [ recs |-> [acc.recs EXCEPT ![id] = r.doc],
              table |-> r.table,
              rows |-> acc.rows \o r.rows,
              calls |-> acc.calls \o r.calls,
              executed |-> Append(acc.executed, id) ])

\* action_confirm on the record set ids: super().action_confirm() confirms
\* every order of the set, then the loop sends
action_confirm_recordset(ids) ==
    /\ \E answers \in [1..Len(ids) -> Answers] :
       LET res == [id \in DOMAIN orders |->
                      IF id \in Range(ids) THEN confirmed(orders[id])
                      ELSE orders[id]]
           r == confirm_loop(ids, configs, answers,
                             batch_tracking(res, order_configs))
       IN  /\ Len(ledger) + Len(r.rows) <= MaxLog
           /\ orders' = r.recs
           /\ order_configs' = r.table
           /\ ledger' = ledger \o r.rows
           /\ op' = Op("action_confirm", NoId, {}, r.calls, r.executed)
    /\ UNCHANGED <<now, configs, sms, groups, whatsapp, picking_configs,
                   pickings, inflight, res_partner, wizards>>

\* _action_done: the loop over self; only an outgoing transfer without an
\* SMS is handed to the send routine
RECURSIVE done_loop(_, _, _, _)
done_loop(ids, cfgs, answers, acc) ==
    IF ids = <<>> THEN acc
    ELSE
    LET id == Head(ids)
        picking == acc.recs[id]
        r == IF picking.code = "outgoing" /\ ~picking.sms_sent
             THEN _send_delivery_sms(id, picking, acc.table, cfgs,
                                     Head(answers))
             ELSE [skipped(picking, acc.table) EXCEPT !.returned = TRUE]
    IN  done_loop(after_attempt(ids, r), cfgs, Tail(answers),
            [ recs |-> [acc.recs EXCEPT ![id] = r.doc],
              table |-> r.table,
              rows |-> acc.rows \o r.rows,
              calls |-> acc.calls \o r.calls,
              executed |-> IF picking.code = "outgoing" /\ ~picking.sms_sent
                           THEN Append(acc.executed, id) ELSE acc.executed ])

\* _action_done on the record set ids: super()._action_done() validates every
\* transfer of the set, then the loop sends
_action_done_recordset(ids) ==
    /\ \E answers \in [1..Len(ids) -> Answers] :
       LET res == [id \in DOMAIN pickings |->
                      IF id \in Range(ids) THEN done(pickings[id])
                      ELSE pickings[id]]
           r == done_loop(ids, configs, answers,
                          batch_tracking(res, picking_configs))
       IN  /\ Len(ledger) + Len(r.rows) <= MaxLog
           /\ pickings' = r.recs
           /\ picking_configs' = r.table
           /\ ledger' = ledger \o r.rows
           /\ op' = Op("_action_done", NoId, {}, r.calls, r.executed)
    /\ UNCHANGED <<now, configs, sms, groups, whatsapp, order_configs, orders,
                   inflight, res_partner, wizards>>

(***************************************************************************)
(* SpecBatch: two orders or two transfers, confirmed or validated one by   *)
(* one or together, in either order.                                       *)
(***************************************************************************)
\* the record sets over a table: its records, each at most once, in an order
Batches(table) ==
    {s \in UNION {[1..n -> DOMAIN table] : n \in 1..Len(table)} :
        \A i, j \in DOMAIN s : s[i] = s[j] => i = j}

\* the configuration tables of the batches: an active record whose template
\* renders, one whose template names no field of the document, an inactive
\* record, no record
BatchTables ==
    { <<new_notification_config(TRUE, <<Text("Hi "), Field("company_name")>>)>>,
      <<new_notification_config(TRUE, <<Text("Hi "), Field("partner")>>)>>,
      <<new_notification_config(FALSE, OrderDefault)>>,
      <<>> }

\* the second document's partner: with a mobile number, or without any
BatchContacts == { <<<<"+", "3">>, Blank>>, <<Blank, Blank>> }

InitBatch ==
    /\ now = 0
    /\ configs \in SweepConfigs
    /\ sms = <<>> /\ groups = <<>> /\ whatsapp = <<>>
    /\ inflight = NoSweeps
    /\ res_partner = Partners
    /\ wizards = <<>>
    /\ ledger = <<>>
    /\ op = Idle
    /\ \/ /\ order_configs \in BatchTables
          /\ \E c \in Contacts, d \in BatchContacts :
                orders = <<new_order(<<"A">>, c[1], c[2]),
                           new_order(<<"B">>, d[1], d[2])>>
          /\ picking_configs = <<>> /\ pickings = <<>>
       \/ /\ picking_configs \in BatchTables
          /\ \E c \in Contacts, d \in BatchContacts,
                 code \in {"outgoing", "incoming"} :
                pickings = <<new_picking(code, c[1], c[2]),
                             new_picking("outgoing", d[1], d[2])>>
          /\ order_configs = <<>> /\ orders = <<>>

NextBatch ==
    \/ \E ids \in Batches(orders) : action_confirm_recordset(ids)
    \/ \E ids \in Batches(pickings) : _action_done_recordset(ids)

SpecBatch == InitBatch /\ [][NextBatch]_vars

(***************************************************************************)
(* C34                                                                     *)
(***************************************************************************)
\* an active record of the table has the template that renders for every
\* document
renders(table) ==
    \E i \in DOMAIN table :
        /\ table[i].is_active
        /\ table[i].message_template = <<Text("Hi "), Field("company_name")>>

\* nothing stands in the way of an SMS for the document
sendable(doc, table) ==
    /\ renders(table)
    /\ ConfigReady(configs, "twilio_number")
    /\ has_contact(doc)
    /\ ~doc.sms_sent

\* C34: action_confirm and _action_done on a record set never raise, whatever
\* the SMS step of each document does: every order of the set is confirmed
\* and every transfer validated, the send routine is run on each of them in
\* turn (for a transfer: if outgoing and without an SMS), and a document that
\* can be sent to gets its transport call whatever happened to the documents
\* before it.
C34_SmsNeverBlocks ==
    [][ /\ op'.name = "action_confirm" /\ op'.id = NoId =>
              LET set == {id \in DOMAIN orders :
                             orders[id].state = "draft"
                             /\ orders'[id].state = "sale"}
              IN  /\ op'.raised = {}
                  /\ \A id \in Range(op'.executed) : orders'[id].state = "sale"
                  /\ set \subseteq Range(op'.executed)
                  /\ \A id \in set :
                        sendable(orders[id], order_configs) =>
                            \E k \in DOMAIN op'.calls : op'.calls[k].job = id
        /\ op'.name = "_action_done" /\ op'.id = NoId =>
              LET set == {id \in DOMAIN pickings :
                             pickings[id].state = "assigned"
                             /\ pickings'[id].state = "done"}
              IN  /\ op'.raised = {}
                  /\ \A id \in Range(op'.executed) : pickings'[id].state = "done"
                  /\ \A id \in set :
                        pickings[id].code = "outgoing" =>
                            /\ id \in Range(op'.executed)
                            /\ sendable(pickings[id], picking_configs) =>
                                  \E k \in DOMAIN op'.calls :
                                      op'.calls[k].job = id
      ]_vars

\* two orders were confirmed together: the call for the first ended in an
\* exception, the second was sent to and accepted
C34_SentAfterFailedOrder ==
    /\ op.name = "action_confirm" /\ op.id = NoId
    /\ Len(op.calls) = 2
    /\ op.calls[1].outcome = "exception"
    /\ op.calls[2].outcome = "accepted"
    /\ orders[op.calls[2].job].sms_sent
    /\ \A id \in DOMAIN orders : orders[id].state = "sale"

(***************************************************************************)
(* C35                                                                     *)
(***************************************************************************)
\* the step added one sms.log row, of status 'sent'
delivered_now ==
    /\ Len(ledger') = Len(ledger) + 1
    /\ ledger'[Len(ledger')].status = "sent"

\* C35 as claimed: an order whose sms_sent is true keeps it true in every
\* step of action_confirm and action_send_sms_manually.
C35_SmsSentForever ==
    [][ \A id \in DOMAIN orders :
            orders[id].sms_sent => orders'[id].sms_sent ]_vars

\* C35, amended: an order whose sms_sent is true keeps it true under every
\* action_confirm, which makes no call for it; action_send_sms_manually,
\* when it does not raise, clears the flag and leaves it true exactly when
\* its own resend was delivered; no other step clears it.
C35_SmsSentUntilFailedResend ==
    [][ \A id \in DOMAIN orders :
            orders[id].sms_sent =>
                /\ op'.name = "action_confirm" =>
                      orders'[id].sms_sent /\ op'.calls = <<>>
                /\ (/\ op'.name = "action_send_sms_manually"
                    /\ op'.id = id
                    /\ op'.raised = {}) =>
                      (orders'[id].sms_sent <=> delivered_now)
                /\ ~orders'[id].sms_sent =>
                      op'.name = "action_send_sms_manually" /\ op'.id = id
      ]_vars

\* an order whose SMS had been delivered was sent to again by hand, the
\* provider rejected the call and sms_sent is false
C35_ResendRejected ==
    \E id \in DOMAIN orders :
        /\ op.name = "action_send_sms_manually" /\ op.id = id
        /\ Len(op.calls) = 1
        /\ op.calls[1].outcome = "rejected"
        /\ ~orders[id].sms_sent
        /\ \E k \in DOMAIN ledger :
              ledger[k].doc_id = id /\ ledger[k].status = "sent"

(***************************************************************************)
(* C36                                                                     *)
(***************************************************************************)
\* C36: after an execution pass on a group, the sms.log row appended for the
\* pass has the group's resulting state as its status: 'sent' exactly when
\* the state is 'sent', 'failed' exactly when it is 'failed'.
C36_RowAgreesWithGroupState ==
    \A id \in DOMAIN groups :
        op.name \in GroupOps /\ passed(id) =>
            /\ ledger # <<>>
            /\ ledger[Len(ledger)].source_model = "twilio.sms.group"
            /\ ledger[Len(ledger)].status = groups[id].state

(***************************************************************************)
(* C37                                                                     *)
(***************************************************************************)
\* the calls a configuration record has accounted for
tally(rec) == rec.total_sent + rec.total_failed

\* the step added exactly one to exactly one of total_sent / total_failed of
\* record i
one_more(table, table_after, i) ==
    /\ tally(table_after[i]) = tally(table[i]) + 1
    /\ table_after[i].total_sent >= table[i].total_sent
    /\ table_after[i].total_failed >= table[i].total_failed

\* C37: every step of an order or delivery handler adds one sms.log row per
\* transport call it made and counts each call on one configuration record of
\* its kind, by one on exactly one of total_sent / total_failed; so the
\* counters of the configurations add up to the calls made for them.
C37_EveryCallCounted ==
    [][ op'.name \in DocOps =>
          LET n == Len(op'.calls)
              on_orders == counted_on(order_configs, order_configs')
              on_pickings == counted_on(picking_configs, picking_configs')
          IN  /\ Len(ledger') = Len(ledger) + n
              /\ Cardinality(on_orders) + Cardinality(on_pickings) = n
              /\ \A i \in on_orders : one_more(order_configs, order_configs', i)
              /\ \A i \in on_pickings :
                    one_more(picking_configs, picking_configs', i)
      ]_vars

(***************************************************************************)
(* SpecOffline: a connected provider configuration that the operator tests,*)
(* overwrites and disconnects, and every dispatch handler on a job or a    *)
(* document of its kind, drafts and jobs already due for the sweeps.       *)
(***************************************************************************)
\* one notification record, active, whose template renders
OfflineTable ==
    <<new_notification_config(TRUE, <<Text("Hi "), Field("company_name")>>)>>

InitOffline ==
    /\ now = 0
    /\ configs \in {c \in ChatConfigs :
                       /\ ConfigReady(c, "twilio_number")
                       /\ c[1].whatsapp_number # Blank}
    /\ inflight = NoSweeps
    /\ res_partner = Partners
    /\ wizards = <<>>
    /\ ledger = <<>>
    /\ op = Idle
    /\ \/ /\ \E st \in {"draft", "scheduled"} :
                sms = <<Left(new_sms(SmsForm("single", <<"+", "1">>, Blank, Hi)),
                             st, 0)>>
          /\ groups = <<>> /\ whatsapp = <<>>
          /\ order_configs = <<>> /\ orders = <<>>
          /\ picking_configs = <<>> /\ pickings = <<>>
       \/ /\ \E st \in {"draft", "scheduled"} :
                groups = <<Left(new_group(GroupForm(<<"V">>, Hi, <<1>>)),
                                st, 0)>>
          /\ sms = <<>> /\ whatsapp = <<>>
          /\ order_configs = <<>> /\ orders = <<>>
          /\ picking_configs = <<>> /\ pickings = <<>>
       \/ /\ whatsapp = <<new_whatsapp(SmsForm("single", <<"+", "1">>, Blank,
                                                Hi))>>
          /\ sms = <<>> /\ groups = <<>>
          /\ order_configs = <<>> /\ orders = <<>>
          /\ picking_configs = <<>> /\ pickings = <<>>
       \/ /\ order_configs = OfflineTable
          /\ orders = <<new_order(<<"A">>, <<"+", "1">>, Blank)>>
          /\ sms = <<>> /\ groups = <<>> /\ whatsapp = <<>>
          /\ picking_configs = <<>> /\ pickings = <<>>
       \/ /\ picking_configs = OfflineTable
          /\ pickings = <<new_picking("outgoing", <<"+", "1">>, Blank)>>
          /\ sms = <<>> /\ groups = <<>> /\ whatsapp = <<>>
          /\ order_configs = <<>> /\ orders = <<>>

NextOffline ==
    \/ \E form \in ConfigForms : write_config(form)
    \/ \E answer \in Outcomes : action_test_connection(answer)
    \/ action_disconnect
    \/ \E id \in DOMAIN sms : action_send_sms(id)
    \/ _cron_send_scheduled_sms
    \/ \E id \in DOMAIN groups : action_send_now(id)
    \/ _cron_send_group_sms
    \/ \E id \in DOMAIN whatsapp : action_send_whatsapp(id)
    \/ \E id \in DOMAIN orders : action_confirm(id)
    \/ \E id \in DOMAIN orders : action_send_sms_manually(id)
    \/ \E id \in DOMAIN pickings : _action_done(id)

SpecOffline == InitOffline /\ [][NextOffline]_vars

(***************************************************************************)
(* C38                                                                     *)
(***************************************************************************)
\* account_sid, auth_token and twilio_number of the record are blank
CredentialsBlank(config) ==
    /\ config.account_sid = Blank
    /\ config.auth_token = Blank
    /\ config.twilio_number = Blank

\* the provider configuration as action_disconnect leaves it
Disconnected(cfgs) ==
    /\ cfgs # <<>>
    /\ cfgs[1].connection_status = "unknown"
    /\ CredentialsBlank(cfgs[1])

\* C38: action_disconnect leaves connection_status 'unknown' and account_sid,
\* auth_token and twilio_number blank; from a configuration in that state no
\* handler makes a transport call (single / multi, group, order, delivery,
\* WhatsApp, either sweep), and the configuration stays in that state until a
\* credential is entered again.
C38_NoCallWhileDisconnected ==
    [][ /\ action_disconnect => Disconnected(configs')
        /\ Disconnected(configs) =>
              /\ op'.calls = <<>>
              /\ Disconnected(configs') \/ ~CredentialsBlank(configs'[1])
      ]_vars

\* a delivery was validated for a partner with a number, under an active
\* delivery configuration, after the provider had been disconnected; an
\* earlier validation had reached the provider
C38_ValidatedWhileDisconnected ==
    /\ Disconnected(configs)
    /\ op.name = "_action_done" /\ op.executed = <<1>>
    /\ op.calls = <<>>
    /\ has_contact(pickings[1])
    /\ ledger # <<>>

====
